---- MODULE Spec2Model ----
(***************************************************************************)
(* Verification model of react-native-nitro-net.                           *)
(*                                                                         *)
(* Part 1 (specification Spec): the native event registry NetManager and   *)
(* the socket/server drivers that register with it, run by transport       *)
(* worker threads and the JS thread, one source statement group per step.  *)
(*                                                                         *)
(* Part 2 (specification SpecAgent): the JS layer - http.Agent connection  *)
(* pool, net.Socket and its driver - run on the single JS thread, one      *)
(* handler per step.                                                       *)
(***************************************************************************)
EXTENDS Integers, Sequences, FiniteSets, TLC

\* ------------------------------------------------------------------ bounds
NumDrivers == 2      \* driver objects (and connection ids) ever created

\* ------------------------------------------------------- program constants
EV_DATA == 2         \* NetSocketEvent.DATA
EV_CLOSE == 4        \* NetSocketEvent.CLOSE

Drivers == 1..NumDrivers
Ids == 1..NumDrivers                 \* the engine gives driver d the id d
\* The engine never delivers two events of one id concurrently, so at most one
\* dispatch per id is in flight: worker i stands for the transport thread that
\* currently delivers the event of id i.
Workers == Ids
JS == NumDrivers + 1                 \* the JS thread
Threads == Workers \cup {JS}
NoHandler == 0                       \* an empty std::function

VARIABLES
    _handlers,   \* NetManager::_handlers: id -> handler (the driver its closure captured)
    _mutex,      \* NetManager::_mutex: [shared: threads holding it shared, unique: holder]
    _id,         \* driver -> its _id field (0 once destroyed)
    _onEvent,    \* driver -> whether the JS callback is set
    life,        \* driver -> "unborn" | "live" | "freed" (the C++ object)
    cmds,        \* driver -> calls it issued: "unregister" / "engine_destroy", in order
    thread       \* thread -> [todo: the statements it still has to run (<<>>: idle),
                 \*            eventType: dispatch's argument,
                 \*            handler: dispatch's local copy of the handler,
                 \*            self: the driver whose method it runs]

nativeVars == <<_handlers, _mutex, _id, _onEvent, life, cmds, thread>>

VARIABLES
    options,        \* the Agent's maxSockets, maxTotalSockets, maxFreeSockets, keepAlive,
                    \* scheduling, fixed by its constructor
    requests,       \* Agent.requests: name -> the requests waiting for a socket, in order
    sockets,        \* Agent.sockets: name -> the sockets in use (or connecting)
    freeSockets,    \* Agent.freeSockets: name -> the idle keep-alive sockets
    _totalSockets,  \* Agent._totalSockets
    req,            \* ClientRequest r -> [state, name: its pool key, socket: this.socket,
                    \*                     aborted]
    sock            \* net.Socket s (whose driver is driver s) -> its fields and listeners

VARIABLES
    parser,         \* the HTTP parser of one connection: [mode, phase, buffer]
    conn,           \* what _setupHttpConnection / _attachSocketListeners keep for that
                    \* connection, and the events emitted on it so far
    fed             \* how many messages the peer has sent on that connection

httpVars == <<parser, conn, fed>>

VARIABLES
    outgoing,       \* one OutgoingMessage (a ClientRequest or a ServerResponse) as a
                    \* Writable, and the bytes it has put on its socket
    stream,         \* one net.Socket as a Duplex stream, with the commands its driver
                    \* was given and the events its consumer has seen
    server,         \* one net.Server: the sockets it tracks and its counter
    runtime         \* the module's initialization state, in JS and in NetManager, and
                    \* the init calls the engine has received

sideVars == <<outgoing, stream, server, runtime>>

jsVars ==
    <<options, requests, sockets, freeSockets, _totalSockets, req, sock, httpVars,
      sideVars>>

vars == <<nativeVars, jsVars>>

IdleThread == [todo |-> <<>>, eventType |-> 0, handler |-> NoHandler, self |-> 0]
evId(t) == t                         \* the id of the event worker t dispatches
Idle(t) == thread[t].todo = <<>>
At(t, step) == thread[t].todo # <<>> /\ Head(thread[t].todo) = step
\* Thread t goes on as record r says; a call that has returned leaves no locals.
Goes(t, r) == thread' = [thread EXCEPT ![t] = IF r.todo = <<>> THEN IdleThread ELSE r]
\* the running statement is done
Advance(t) == Goes(t, [thread[t] EXCEPT !.todo = Tail(@)])
\* the running statement calls into `steps` and is done after them
Continue(t, steps) == Goes(t, [thread[t] EXCEPT !.todo = steps \o Tail(@)])

\* ------------------------------------------------------------- NetManager

\* The native state as one value, and the step that makes v the next one.
Native ==
    [_handlers |-> _handlers, _mutex |-> _mutex, _id |-> _id, _onEvent |-> _onEvent,
     life |-> life, cmds |-> cmds]
NativeBecomes(v) ==
    /\ _handlers' = v._handlers
    /\ _mutex' = v._mutex
    /\ _id' = v._id
    /\ _onEvent' = v._onEvent
    /\ life' = v.life
    /\ cmds' = v.cmds

\* map.find(id): the handler copied and the map afterwards (find inserts nothing).
FindWithIndexOperator(map, id) ==
    IF id \in DOMAIN map
    THEN [found |-> map[id], map |-> map]
    ELSE [found |-> NoHandler, map |-> map @@ (id :> NoHandler)]
Find(map, id) ==
    [found |-> IF id \in DOMAIN map THEN map[id] ELSE NoHandler, map |-> map]

\* map.erase(id)
Erase(map, id) == [i \in DOMAIN map \ {id} |-> map[i]]

\* map[id] = handler
Store(map, id, h) == [i \in DOMAIN map \cup {id} |-> IF i = id THEN h ELSE map[i]]

\* One statement of the native code, run by thread t in a method of driver d, as
\* the state it leaves:
\*   reg_lock, unreg_lock   std::unique_lock lock(_mutex)
\*   reg_store              _handlers[id] = handler; the lock's scope ends
\*   unreg_erase            _handlers.erase(id); the lock's scope ends
\*   unlock                 the scope of dispatch's std::shared_lock ends
\*   set_onEvent            _onEvent = callback
\*   engine_destroy         net_destroy_socket / net_socket_reset_and_destroy /
\*                          net_destroy_server (_id)
\*   clear_id               _id = 0
\*   free                   the destructor returns, the object's storage is released
Do(step, t, d, v) ==
    CASE step \in {"reg_lock", "unreg_lock"} -> [v EXCEPT !._mutex.unique = {t}]
      [] step = "reg_store" ->
            [v EXCEPT !._handlers = Store(@, v._id[d], d), !._mutex.unique = {}]
      [] step = "unreg_erase" ->
            [v EXCEPT !._handlers = Erase(@, v._id[d]), !._mutex.unique = {},
                      !.cmds[d] = Append(@, "unregister")]
      [] step = "unlock" -> [v EXCEPT !._mutex.shared = @ \ {t}]
      [] step = "set_onEvent" -> [v EXCEPT !._onEvent[d] = TRUE]
      [] step = "engine_destroy" -> [v EXCEPT !.cmds[d] = Append(@, "engine_destroy")]
      [] step = "clear_id" -> [v EXCEPT !._id[d] = 0]
      [] step = "free" -> [v EXCEPT !.life[d] = "freed"]

\* A unique_lock waits until nobody holds the mutex.
CanDo(step, v) ==
    step \in {"reg_lock", "unreg_lock"} => v._mutex.unique = {} /\ v._mutex.shared = {}

\* thread t runs its next statement, `step`
Statement(t, step) ==
    /\ At(t, step) /\ CanDo(step, Native)
    /\ NativeBecomes(Do(step, t, thread[t].self, Native))
    /\ Advance(t)
    /\ UNCHANGED jsVars

\* What dispatch() does once it holds the shared lock and has copied the handler:
\* the lock's scope ends, then the handler is called outside of it.
AfterLookupInvokeUnderLock == <<"invoke", "unlock">>
AfterLookup == <<"unlock", "invoke">>

\* The engine calls dispatch(id, eventType, ...) on a transport thread:
\* std::shared_lock lock(_mutex); it = _handlers.find(id); handler = it->second
Dispatch(t) ==
    /\ t \in Workers /\ Idle(t)
    /\ _mutex.unique = {}
    /\ _mutex' = [_mutex EXCEPT !.shared = @ \cup {t}]
    /\ _handlers' = Find(_handlers, evId(t)).map
    /\ \E ty \in {EV_DATA, EV_CLOSE} :
          Goes(t, [IdleThread EXCEPT !.todo = AfterLookup, !.eventType = ty,
                                     !.handler = Find(_handlers, evId(t)).found])
    /\ UNCHANGED jsVars /\ UNCHANGED <<_id, _onEvent, life, cmds>>

\* the end of the shared_lock's scope
UnlockKeepsLock(t) ==
    /\ At(t, "unlock")
    /\ Advance(t)
    /\ UNCHANGED jsVars /\ UNCHANGED <<_handlers, _mutex, _id, _onEvent, life, cmds>>
Unlock(t) == At(t, "unlock") /\ Statement(t, "unlock")

\* if (handler) handler(eventType, data, len); else LOGW(...)
\* The handler is the closure [this]{ this->onNativeEvent(...) } of the driver.
Invoke(t) ==
    /\ At(t, "invoke")
    /\ IF thread[t].handler # NoHandler
       THEN Goes(t, [thread[t] EXCEPT !.todo = <<"onNativeEvent">> \o Tail(@),
                                      !.self = thread[t].handler])
       ELSE Advance(t)
    /\ UNCHANGED jsVars /\ UNCHANGED <<_handlers, _mutex, _id, _onEvent, life, cmds>>

\* std::unique_lock lock(_mutex) of registerHandler / unregisterHandler
UniqueLock(t) ==
    /\ At(t, "reg_lock") \/ At(t, "unreg_lock")
    /\ Statement(t, Head(thread[t].todo))

\* registerHandler: _handlers[id] = handler
RegStore(t) == At(t, "reg_store") /\ Statement(t, "reg_store")

\* unregisterHandler: _handlers.erase(id)
UnregErase(t) == At(t, "unreg_erase") /\ Statement(t, "unreg_erase")

\* ---------------------------------------------------------------- drivers

\* The application creates one listener (HybridNetServerDriver, driver 1) and
\* sockets (HybridNetSocketDriver, the other drivers).
IsServer(d) == d = 1

\* destroy() of both drivers:
\* if (_id != 0) { unregisterHandler(_id); net_destroy_*(_id); _id = 0; }
destroyUnguarded(d) == <<"unreg_lock", "unreg_erase", "engine_destroy", "clear_id">>
destroy(d) ==
    IF _id[d] # 0 THEN <<"unreg_lock", "unreg_erase", "engine_destroy", "clear_id">>
    ELSE <<>>

\* HybridNetSocketDriver::resetAndDestroy:
\* if (_id != 0) { net_socket_reset_and_destroy(_id); unregisterHandler(_id); _id = 0; }
resetAndDestroy(d) ==
    IF _id[d] # 0 THEN <<"engine_destroy", "unreg_lock", "unreg_erase", "clear_id">>
    ELSE <<>>

\* The constructors: _id = net_create_*(), then registerHandler(_id, [this]...); then
\* the JS constructor that asked for the driver sets driver.onEvent (_setupEvents).
Created(v, d) == [v EXCEPT !.life[d] = "live", !._id[d] = d]
ConstructSteps == <<"reg_lock", "reg_store", "set_onEvent">>

\* The last reference is dropped: ~Driver() { destroy(); } and the object is freed
DestructorSteps(d) == destroy(d) \o <<"free">>

\* destroy() has run to its end on driver d, or d has been freed
Destroyed(d) == life[d] = "freed" \/ (life[d] = "live" /\ _id[d] = 0)

\* Driver.createSocket() / createServer() on the JS thread
Construct(d) ==
    /\ Idle(JS) /\ life[d] = "unborn"
    /\ NativeBecomes(Created(Native, d))
    /\ Goes(JS, [IdleThread EXCEPT !.todo = ConstructSteps, !.self = d])
    /\ UNCHANGED jsVars

\* The JS thread calls a method of driver d: `steps` is what it has to run.
DriverCall(d, steps) ==
    /\ Idle(JS) /\ life[d] = "live"
    /\ Goes(JS, [IdleThread EXCEPT !.todo = steps, !.self = d])
    /\ UNCHANGED <<_handlers, _mutex, _id, _onEvent, life, cmds>>
    /\ UNCHANGED jsVars

\* JS: driver.onEvent = ... (setOnEvent)
SetOnEvent(t) == At(t, "set_onEvent") /\ Statement(t, "set_onEvent")

\* the application calls driver.destroy() on a socket driver
CallDestroy(d) == ~IsServer(d) /\ DriverCall(d, destroy(d))

\* the application calls driver.resetAndDestroy() on a socket driver
CallResetAndDestroy(d) == ~IsServer(d) /\ DriverCall(d, resetAndDestroy(d))

\* the collector finalises driver d
Destructor(d) == life[d] = "live" /\ DriverCall(d, DestructorSteps(d))

\* net_destroy_socket(_id) / net_socket_reset_and_destroy(_id) / net_destroy_server(_id)
EngineDestroy(t) == At(t, "engine_destroy") /\ Statement(t, "engine_destroy")

\* _id = 0
ClearId(t) == At(t, "clear_id") /\ Statement(t, "clear_id")

\* the destructor returns and the object's storage is released
Free(t) == At(t, "free") /\ Statement(t, "free")

\* onNativeEvent: if (!_onEvent) return; ...; _onEvent(type, ab) is entered.
\* On a freed driver the read of _onEvent is undefined: either outcome.
OnNativeEvent(t) ==
    /\ At(t, "onNativeEvent")
    /\ \E set \in (IF life[thread[t].self] = "freed" THEN BOOLEAN
                   ELSE {_onEvent[thread[t].self]}) :
          IF set THEN Continue(t, <<"onEvent_return">>) ELSE Advance(t)
    /\ UNCHANGED jsVars /\ UNCHANGED <<_handlers, _mutex, _id, _onEvent, life, cmds>>

\* _onEvent(type, ab) returns; the server driver then destroys itself on CLOSE:
\* if (type == 4) destroy();
OnEventReturn(t) ==
    /\ At(t, "onEvent_return")
    /\ IF IsServer(thread[t].self) /\ thread[t].eventType = EV_CLOSE
       THEN Continue(t, destroy(thread[t].self))
       ELSE Advance(t)
    /\ UNCHANGED jsVars /\ UNCHANGED <<_handlers, _mutex, _id, _onEvent, life, cmds>>

InitNative ==
    /\ _handlers = [i \in {} |-> NoHandler]
    /\ _mutex = [shared |-> {}, unique |-> {}]
    /\ _id = [d \in Drivers |-> 0]
    /\ _onEvent = [d \in Drivers |-> FALSE]
    /\ life = [d \in Drivers |-> "unborn"]
    /\ cmds = [d \in Drivers |-> <<>>]
    /\ thread = [t \in Threads |-> IdleThread]

NextNative ==
    \/ \E t \in Workers : Dispatch(t)
    \/ \E t \in Workers : Unlock(t)
    \/ \E t \in Workers : Invoke(t)
    \/ \E t \in Workers : OnNativeEvent(t)
    \/ \E t \in Workers : OnEventReturn(t)
    \/ \E t \in Threads : UniqueLock(t)
    \/ \E t \in Threads : UnregErase(t)
    \/ \E t \in Threads : EngineDestroy(t)
    \/ \E t \in Threads : ClearId(t)
    \/ RegStore(JS)
    \/ SetOnEvent(JS)
    \/ Free(JS)
    \/ \E d \in Drivers : Construct(d)
    \/ \E d \in Drivers : CallDestroy(d)
    \/ \E d \in Drivers : CallResetAndDestroy(d)
    \/ \E d \in Drivers : Destructor(d)

\* A whole method of driver d run by thread t with nothing in between: the
\* state its statements leave, one after the other.
RECURSIVE RunAll(_, _, _, _)
RunAll(steps, t, d, v) ==
    IF steps = <<>> THEN v
    ELSE RunAll(Tail(steps), t, d, Do(Head(steps), t, d, v))

\* ---------------------------------------------------- the JS layer's state

NumRequests == 3                     \* http.ClientRequest objects ever created
Names == {"a", "b"}                  \* Agent.getName(options): the pool keys in use
Requests == 1..NumRequests
Sockets == Drivers                   \* net.Socket s owns driver s
NoSocket == 0                        \* this.socket = null
NoRequest == 0
Infinity == NumDrivers + NumRequests + 1

\* new Agent(): maxSockets = Infinity, maxTotalSockets = Infinity,
\* maxFreeSockets = 256, keepAlive = false, scheduling = 'lifo'
DefaultOptions ==
    [maxSockets |-> Infinity, maxTotalSockets |-> Infinity, maxFreeSockets |-> 256,
     keepAlive |-> FALSE, scheduling |-> "lifo"]

NoSock ==
    [state |-> "unborn", destroyed |-> FALSE, _driver |-> FALSE, called |-> FALSE,
     name |-> "", closeL |-> 0, errorL |-> 0, req |-> NoRequest, closePending |-> FALSE,
     ended |-> FALSE]
NoReq == [state |-> "unborn", name |-> "", socket |-> NoSocket, aborted |-> FALSE]

\* no HTTP connection has been set up
NoParser ==
    [mode |-> -1, phase |-> "none", buffer |-> <<>>, msg |-> 0, bodies |-> <<>>,
     completed |-> <<>>]
NoConn ==
    [role |-> "none", method |-> "", connectListener |-> FALSE, listening |-> FALSE,
     destroyed |-> FALSE, socket |-> FALSE, req |-> FALSE, _res |-> FALSE,
     threw |-> FALSE, errors |-> 0, events |-> <<>>,
     currentReq |-> 0, ended |-> <<>>, pushed |-> <<>>, open |-> {}, closed |-> FALSE]

\* no message is being written, no stream and no net.Server has been constructed
NoOut == [role |-> "none"]
NoStream == [role |-> "none"]
NoServer == [role |-> "none"]
NoRuntime == [role |-> "none"]
NoSide == outgoing = NoOut /\ stream = NoStream /\ server = NoServer /\ runtime = NoRuntime

\* the state after new Agent(o): the Agent, and no request or socket yet
InitPool(o) ==
    /\ options = o
    /\ requests = [n \in Names |-> <<>>]
    /\ sockets = [n \in Names |-> <<>>]
    /\ freeSockets = [n \in Names |-> <<>>]
    /\ _totalSockets = 0
    /\ req = [r \in Requests |-> NoReq]
    /\ sock = [s \in Sockets |-> NoSock]

InitJS(o) ==
    /\ InitPool(o)
    /\ parser = NoParser /\ conn = NoConn /\ fed = 0
    /\ NoSide

\* The JS layer's state as one value, and the step that makes j the next one: a
\* handler is a chain of synchronous calls, each taking the state the last one left.
Now ==
    [options |-> options, requests |-> requests, sockets |-> sockets,
     freeSockets |-> freeSockets, _totalSockets |-> _totalSockets, req |-> req,
     sock |-> sock]
Becomes(j) ==
    /\ options' = j.options
    /\ requests' = j.requests
    /\ sockets' = j.sockets
    /\ freeSockets' = j.freeSockets
    /\ _totalSockets' = j._totalSockets
    /\ req' = j.req
    /\ sock' = j.sock
    /\ UNCHANGED httpVars /\ UNCHANGED sideVars

\* list.indexOf(x): the first place of x, 0 for JS's -1
IndexOf(list, x) ==
    IF \E i \in DOMAIN list : list[i] = x
    THEN CHOOSE i \in DOMAIN list : list[i] = x /\ \A k \in 1..(i - 1) : list[k] # x
    ELSE 0
\* list.splice(i, 1)
Splice(list, i) == SubSeq(list, 1, i - 1) \o SubSeq(list, i + 1, Len(list))
\* idx = list.indexOf(x); if (idx !== -1) list.splice(idx, 1)
Without(list, x) == IF IndexOf(list, x) # 0 THEN Splice(list, IndexOf(list, x)) ELSE list
Has(list, x) == IndexOf(list, x) # 0
\* list.pop() and list.shift(): the element taken and the list left
Pop(list) == [taken |-> list[Len(list)], left |-> SubSeq(list, 1, Len(list) - 1)]
Shift(list) == [taken |-> Head(list), left |-> Tail(list)]

\* ------------------------------------------------------------- ClientRequest

\* _cleanupSocket: the request's data/error/close listeners leave its socket;
\* this.socket = null
_cleanupSocket(j, r) ==
    LET s == j.req[r].socket IN
    [j EXCEPT !.req[r].socket = NoSocket,
              !.sock = IF s # NoSocket /\ j.sock[s].req = r
                       THEN [j.sock EXCEPT ![s].req = NoRequest] ELSE j.sock]

\* onSocket(socket) and connectCallback(null, socket): this.socket = socket, the
\* request is sent and _attachSocketListeners listens for data, error and close
onSocket(j, r, s) ==
    [j EXCEPT !.req[r].socket = s, !.req[r].state = "sent", !.sock[s].req = r]

\* ---------------------------------------------------------------- http.Agent

\* createConnection, reached by onSocket(null) -> _connect: a new Socket s starts to
\* connect, is pushed on sockets[name] and becomes the request's this.socket
createConnection(j, r, s) ==
    LET n == j.req[r].name IN
    [j EXCEPT !.sock[s] = [NoSock EXCEPT !.state = "connecting", !._driver = TRUE,
                                         !.name = n],
              !.sockets[n] = Append(@, s),
              !.req[r].socket = s, !.req[r].state = "connecting"]

\* addRequest(req, options); s is the Socket a new connection would construct
addRequestAlwaysPop(j, r, s) ==
    LET n == j.req[r].name
        got == Pop(j.freeSockets[n])
    IN  IF Len(j.freeSockets[n]) > 0
        THEN onSocket([j EXCEPT !.freeSockets[n] = got.left,
                                !.sockets[n] = Append(@, got.taken)], r, got.taken)
        ELSE IF Len(j.sockets[n]) < j.options.maxSockets
                /\ j._totalSockets < j.options.maxTotalSockets
        THEN createConnection([j EXCEPT !._totalSockets = @ + 1], r, s)
        ELSE [j EXCEPT !.requests[n] = Append(@, r), !.req[r].state = "queued"]
addRequestNoCap(j, r, s) ==
    LET n == j.req[r].name
        got == IF j.options.scheduling = "lifo" THEN Pop(j.freeSockets[n])
               ELSE Shift(j.freeSockets[n])
    IN  IF Len(j.freeSockets[n]) > 0
        THEN onSocket([j EXCEPT !.freeSockets[n] = got.left,
                                !.sockets[n] = Append(@, got.taken)], r, got.taken)
        ELSE createConnection([j EXCEPT !._totalSockets = @ + 1], r, s)
addRequestKeepsFree(j, r, s) ==
    LET n == j.req[r].name
        got == IF j.options.scheduling = "lifo" THEN Pop(j.freeSockets[n])
               ELSE Shift(j.freeSockets[n])
    IN  IF Len(j.freeSockets[n]) > 0
        THEN onSocket([j EXCEPT !.sockets[n] = Append(@, got.taken)], r, got.taken)
        ELSE IF Len(j.sockets[n]) < j.options.maxSockets
                /\ j._totalSockets < j.options.maxTotalSockets
        THEN createConnection([j EXCEPT !._totalSockets = @ + 1], r, s)
        ELSE [j EXCEPT !.requests[n] = Append(@, r), !.req[r].state = "queued"]
addRequest(j, r, s) ==
    LET n == j.req[r].name
        got == IF j.options.scheduling = "lifo" THEN Pop(j.freeSockets[n])
               ELSE Shift(j.freeSockets[n])
    IN  IF Len(j.freeSockets[n]) > 0
        THEN onSocket([j EXCEPT !.freeSockets[n] = got.left,
                                !.sockets[n] = Append(@, got.taken)], r, got.taken)
        ELSE IF Len(j.sockets[n]) < j.options.maxSockets
                /\ j._totalSockets < j.options.maxTotalSockets
        THEN createConnection([j EXCEPT !._totalSockets = @ + 1], r, s)
        ELSE [j EXCEPT !.requests[n] = Append(@, r), !.req[r].state = "queued"]

\* reuseSocket: the Agent's latest close/error listeners leave the socket, then
\* req.onSocket(socket)
reuseSocket(j, s, r) ==
    onSocket([j EXCEPT !.sock[s].closeL = @ - 1, !.sock[s].errorL = @ - 1], r, s)

\* releaseSocket(socket, options) for the key n of the request that gives s back
releaseSocketToFree(j, s, n) ==
    LET j1 == [j EXCEPT !.sockets[n] = Without(@, s),
                        !.sock[s].closeL = @ + 1, !.sock[s].errorL = @ + 1]
    IN  IF j1.options.keepAlive
        THEN IF Len(j1.freeSockets[n]) < j1.options.maxFreeSockets
             THEN [j1 EXCEPT !.freeSockets[n] = Append(@, s)]
             ELSE [j1 EXCEPT !._totalSockets = @ - 1, !.sock[s].ended = TRUE]
        ELSE [j1 EXCEPT !._totalSockets = @ - 1, !.sock[s].ended = TRUE]
releaseSocketNoFreeCap(j, s, n) ==
    LET j1 == [j EXCEPT !.sockets[n] = Without(@, s),
                        !.sock[s].closeL = @ + 1, !.sock[s].errorL = @ + 1]
        got == Shift(j1.requests[n])
    IN  IF Len(j1.requests[n]) > 0
        THEN reuseSocket([j1 EXCEPT !.requests[n] = got.left,
                                    !.sockets[n] = Append(@, s)], s, got.taken)
        ELSE IF j1.options.keepAlive
        THEN [j1 EXCEPT !.freeSockets[n] = Append(@, s)]
        ELSE [j1 EXCEPT !._totalSockets = @ - 1, !.sock[s].ended = TRUE]
releaseSocketFreeFirst(j, s, n) ==
    LET j1 == [j EXCEPT !.sockets[n] = Without(@, s),
                        !.sock[s].closeL = @ + 1, !.sock[s].errorL = @ + 1]
        got == Shift(j1.requests[n])
    IN  IF j1.options.keepAlive /\ Len(j1.freeSockets[n]) < j1.options.maxFreeSockets
        THEN [j1 EXCEPT !.freeSockets[n] = Append(@, s)]
        ELSE IF Len(j1.requests[n]) > 0
        THEN reuseSocket([j1 EXCEPT !.requests[n] = got.left,
                                    !.sockets[n] = Append(@, s)], s, got.taken)
        ELSE [j1 EXCEPT !._totalSockets = @ - 1, !.sock[s].ended = TRUE]
releaseSocket(j, s, n) ==
    LET j1 == [j EXCEPT !.sockets[n] = Without(@, s),
                        !.sock[s].closeL = @ + 1, !.sock[s].errorL = @ + 1]
        got == Shift(j1.requests[n])
    IN  IF Len(j1.requests[n]) > 0
        THEN reuseSocket([j1 EXCEPT !.requests[n] = got.left,
                                    !.sockets[n] = Append(@, s)], s, got.taken)
        ELSE IF j1.options.keepAlive
        THEN IF Len(j1.freeSockets[n]) < j1.options.maxFreeSockets
             THEN [j1 EXCEPT !.freeSockets[n] = Append(@, s)]
             ELSE [j1 EXCEPT !._totalSockets = @ - 1, !.sock[s].ended = TRUE]
        ELSE [j1 EXCEPT !._totalSockets = @ - 1, !.sock[s].ended = TRUE]

\* _removeSocket(socket, name)
_removeSocketAlwaysDecrements(j, s, n) ==
    [j EXCEPT !.sockets[n] = Without(@, s), !.freeSockets[n] = Without(@, s),
              !._totalSockets = @ - 1]
_removeSocket(j, s, n) ==
    LET j1 == IF Has(j.sockets[n], s)
              THEN [j EXCEPT !.sockets[n] = Without(@, s), !._totalSockets = @ - 1]
              ELSE j
    IN  IF Has(j1.freeSockets[n], s)
        THEN [j1 EXCEPT !.freeSockets[n] = Without(@, s), !._totalSockets = @ - 1]
        ELSE j1

\* _finishResponse: the response is complete; the request drops its socket and
\* gives it back to the Agent
_finishResponse(j, r) ==
    LET s == j.req[r].socket
        j1 == _cleanupSocket([j EXCEPT !.req[r].state = "done"], r)
    IN  IF s # NoSocket THEN releaseSocket(j1, s, j.req[r].name) ELSE j1

\* ---------------------------------------------------------------- net.Socket

\* the request whose _connect created socket s and still waits for its callback
Creator(j, s) == CHOOSE r \in Requests : j.req[r].socket = s /\ j.req[r].state = "connecting"
HasCreator(j, s) == \E r \in Requests : j.req[r].socket = s /\ j.req[r].state = "connecting"

\* emit('connect'): createConnection's onConnected calls back once
emitConnect(j, s) ==
    IF ~j.sock[s].called /\ HasCreator(j, s)
    THEN onSocket([j EXCEPT !.sock[s].called = TRUE], Creator(j, s), s)
    ELSE j

\* emit('error'): createConnection's listener (until `called`), the Agent's once
\* listeners of releaseSocket, the request's onError
emitError(j, s) ==
    LET n == j.sock[s].name
        j1 == IF ~j.sock[s].called
              THEN [j EXCEPT !.sock[s].called = TRUE,
                             !._totalSockets = @ - 1,
                             !.sockets[n] = Without(@, s),
                             !.req = IF HasCreator(j, s)
                                     THEN [j.req EXCEPT ![Creator(j, s)].state = "error"]
                                     ELSE j.req]
              ELSE j
        j2 == IF j1.sock[s].errorL > 0
              THEN _removeSocket([j1 EXCEPT !.sock[s].errorL = 0], s, n)
              ELSE j1
        r == j2.sock[s].req
    IN  IF r # NoRequest
        THEN _cleanupSocket([j2 EXCEPT !.req[r].state = "error"], r)
        ELSE j2

\* emit('close'): the Agent's once listeners of releaseSocket, the request's onClose
emitClose(j, s) ==
    LET n == j.sock[s].name
        j1 == IF j.sock[s].closeL > 0
              THEN _removeSocket([j EXCEPT !.sock[s].closeL = 0], s, n)
              ELSE j
        r == j1.sock[s].req
    IN  IF r # NoRequest
        THEN _cleanupSocket([j1 EXCEPT !.req[r].state = "closed"], r)
        ELSE j1

\* Socket.destroy() -> Duplex.destroy(): nothing on a destroyed stream; else
\* _destroy (destroyed = true, the driver is destroyed and dropped) and 'close'
\* is emitted on a later tick
destroyAgain(j, s) ==
    [j EXCEPT !.sock[s].destroyed = TRUE, !.sock[s]._driver = FALSE,
              !.sock[s].closePending = TRUE]
SocketDestroy(j, s) ==
    IF j.sock[s].destroyed THEN j
    ELSE [j EXCEPT !.sock[s].destroyed = TRUE, !.sock[s]._driver = FALSE,
                   !.sock[s].closePending = TRUE]
\* what _destroy asks of the driver: if (this._driver) this._driver.destroy()
DriverDestroy(j, s) == IF ~j.sock[s].destroyed /\ j.sock[s]._driver THEN destroy(s) ELSE <<>>

\* Socket.resetAndDestroy()
SocketResetAndDestroy(j, s) ==
    [j EXCEPT !.sock[s].destroyed = TRUE, !.sock[s]._driver = FALSE]
DriverResetAndDestroy(j, s) == IF j.sock[s]._driver THEN resetAndDestroy(s) ELSE <<>>

\* The JS thread calls into driver s and the call returns: in the JS layer no
\* other thread takes the registry's lock, so nothing comes in between.
CallDriver(s, steps) ==
    /\ NativeBecomes(RunAll(steps, JS, s, Native))
    /\ UNCHANGED thread

\* The engine's event for socket s reaches driver.onEvent on the JS thread: the
\* handler is registered, onEvent set, and no other JS code runs.
Delivers(s) ==
    /\ Idle(JS) /\ s \in DOMAIN _handlers /\ _onEvent[s]
    /\ ~sock[s].destroyed

\* ------------------------------------------------- the JS thread's handlers

\* the smallest Socket not yet constructed (NoSocket: the bound is used up)
Fresh ==
    IF \E s \in Sockets : sock[s].state = "unborn"
    THEN CHOOSE s \in Sockets : sock[s].state = "unborn"
                                /\ \A k \in 1..(s - 1) : sock[k].state # "unborn"
    ELSE NoSocket

\* http.request(options) for the key n: new ClientRequest schedules
\* agent.addRequest(this, this._options), which runs here; a new Socket constructs
\* its driver. Requests are numbered in the order their addRequest runs, and the
\* first one's key is called "a".
AddRequest(r, n) ==
    /\ Idle(JS) /\ req[r].state = "unborn"
    /\ \A k \in 1..(r - 1) : req[k].state # "unborn"
    /\ r = 1 => n = "a"
    /\ LET j == addRequest([Now EXCEPT !.req[r].name = n], r, Fresh) IN
          /\ \A m \in Names : ~Has(j.sockets[m], NoSocket)
          /\ Becomes(j)
          /\ IF Fresh # NoSocket /\ j.sock[Fresh].state # "unborn"
             THEN /\ NativeBecomes(RunAll(ConstructSteps, JS, Fresh, Created(Native, Fresh)))
                  /\ UNCHANGED thread
             ELSE UNCHANGED nativeVars

\* NetSocketEvent.CONNECT
Connected(s) ==
    /\ Delivers(s) /\ sock[s].state = "connecting"
    /\ Becomes(emitConnect([Now EXCEPT !.sock[s].state = "open"], s))
    /\ UNCHANGED nativeVars

\* NetSocketEvent.DATA carrying the end of the response the request waits for:
\* handleParsedResult sees parsed.complete and calls _finishResponse
ResponseComplete(s) ==
    /\ Delivers(s) /\ sock[s].state = "open" /\ sock[s].req # NoRequest
    /\ Becomes(_finishResponse(Now, sock[s].req))
    /\ UNCHANGED nativeVars

\* NetSocketEvent.ERROR: emit('error', error); this.destroy()
SocketError(s) ==
    /\ Delivers(s) /\ sock[s].state \in {"connecting", "open"}
    /\ LET j == emitError(Now, s) IN
          /\ Becomes(SocketDestroy(j, s))
          /\ CallDriver(s, DriverDestroy(j, s))

\* NetSocketEvent.CLOSE: push(null); emit('close', this._hadError)
SocketClose(s) ==
    /\ Delivers(s) /\ sock[s].state \in {"connecting", "open"}
    /\ Becomes(emitClose([Now EXCEPT !.sock[s].state = "closed"], s))
    /\ UNCHANGED nativeVars

\* the tick after destroy(): the stream emits 'close'
EmitClose(s) ==
    /\ Idle(JS) /\ sock[s].closePending
    /\ Becomes(emitClose([Now EXCEPT !.sock[s].closePending = FALSE], s))
    /\ UNCHANGED nativeVars

\* somebody (the application, Agent.destroy(), a request's destroy()) calls
\* socket.destroy()
CallSocketDestroy(s) ==
    /\ Idle(JS) /\ sock[s].state # "unborn"
    /\ Becomes(SocketDestroy(Now, s))
    /\ CallDriver(s, DriverDestroy(Now, s))

\* the application calls socket.resetAndDestroy()
CallSocketResetAndDestroy(s) ==
    /\ Idle(JS) /\ sock[s].state # "unborn"
    /\ Becomes(SocketResetAndDestroy(Now, s))
    /\ CallDriver(s, DriverResetAndDestroy(Now, s))

\* The Socket has dropped its driver (this._driver = undefined): the collector
\* runs ~HybridNetSocketDriver(). It may do so at any later time and touches only
\* the dropped driver, which no handler reads again; it runs here once every
\* request has come to its end.
CollectDriver(s) ==
    /\ Idle(JS) /\ sock[s].state # "unborn" /\ ~sock[s]._driver /\ life[s] = "live"
    /\ \A r \in Requests : req[r].state \in {"done", "error", "closed"}
    /\ CallDriver(s, DestructorSteps(s))
    /\ UNCHANGED jsVars

\* new Agent(options): the limits the application may pass. An option that
\* cannot matter keeps one value: without keepAlive nothing is kept free, and a
\* free list of at most one socket has no order.
AgentOptions ==
    {o \in [maxSockets : 1..NumDrivers, maxTotalSockets : 1..NumDrivers,
            maxFreeSockets : 1..NumDrivers, keepAlive : BOOLEAN,
            scheduling : {"lifo", "fifo"}] :
        /\ ~o.keepAlive => o.maxFreeSockets = 1
        /\ o.maxFreeSockets = 1 => o.scheduling = "lifo"}

InitAgent == InitNative /\ \E o \in AgentOptions : InitJS(o)

NextAgent ==
    \/ \E r \in Requests, n \in Names : AddRequest(r, n)
    \/ \E s \in Sockets : Connected(s)
    \/ \E s \in Sockets : ResponseComplete(s)
    \/ \E s \in Sockets : SocketError(s)
    \/ \E s \in Sockets : SocketClose(s)
    \/ \E s \in Sockets : EmitClose(s)
    \/ \E s \in Sockets : CallSocketDestroy(s)
    \/ \E s \in Sockets : CallSocketResetAndDestroy(s)
    \/ \E s \in Sockets : CollectDriver(s)

SpecAgent == InitAgent /\ [][NextAgent]_vars

\* What the scheduling guarantees: the event loop runs the tick scheduled by
\* destroy(), and the engine delivers the connect event and the response that a
\* live connection has coming. New requests, failures and destroy() calls may or
\* may not come.
FairAgent ==
    \A s \in Sockets :
        /\ WF_vars(Connected(s))
        /\ WF_vars(ResponseComplete(s))
        /\ WF_vars(EmitClose(s))

SpecAgentFair == SpecAgent /\ FairAgent

\* ----------------------------------------------- releaseSocket called directly

MaxRelease == 2                      \* direct calls of releaseSocket per socket

\* releaseSocket is a public method of the Agent. A caller gives socket s back
\* under the key it was pooled under although the Agent does not hold it as in
\* use there: it was given back before, or a signal removed it.
CallReleaseSocket(s) ==
    /\ Idle(JS) /\ sock[s].state # "unborn" /\ sock[s].closeL < MaxRelease
    /\ ~Has(sockets[sock[s].name], s)
    /\ Becomes(releaseSocket(Now, s, sock[s].name))
    /\ UNCHANGED nativeVars

\* The requests and the engine's events as in NextAgent, and the direct calls;
\* the application destroys no socket itself here.
NextRelease ==
    \/ \E r \in Requests, n \in Names : AddRequest(r, n)
    \/ \E s \in Sockets : Connected(s)
    \/ \E s \in Sockets : ResponseComplete(s)
    \/ \E s \in Sockets : SocketError(s)
    \/ \E s \in Sockets : SocketClose(s)
    \/ \E s \in Sockets : EmitClose(s)
    \/ \E s \in Sockets : CallReleaseSocket(s)

SpecRelease == InitAgent /\ [][NextRelease]_vars

\* ------------------------------------------------------ ClientRequest.abort

\* abort(): if (this.aborted) return; this.aborted = true; this.destroy(), which
\* destroys the request's stream and, if it has one, its socket. Nothing is
\* said to the Agent.
abort(j, r) ==
    IF j.req[r].aborted THEN j
    ELSE IF j.req[r].socket # NoSocket
    THEN SocketDestroy([j EXCEPT !.req[r].aborted = TRUE], j.req[r].socket)
    ELSE [j EXCEPT !.req[r].aborted = TRUE]

\* the application calls req.abort() on a request whose addRequest has run
Abort(r) ==
    /\ Idle(JS) /\ req[r].state # "unborn" /\ ~req[r].aborted
    /\ Becomes(abort(Now, r))
    /\ IF req[r].socket # NoSocket
       THEN CallDriver(req[r].socket, DriverDestroy(Now, req[r].socket))
       ELSE UNCHANGED nativeVars

\* The requests and the engine's events as in NextAgent, and abort(), through
\* which the application destroys sockets here.
NextAbort ==
    \/ \E r \in Requests, n \in Names : AddRequest(r, n)
    \/ \E s \in Sockets : Connected(s)
    \/ \E s \in Sockets : ResponseComplete(s)
    \/ \E s \in Sockets : SocketError(s)
    \/ \E s \in Sockets : SocketClose(s)
    \/ \E s \in Sockets : EmitClose(s)
    \/ \E r \in Requests : Abort(r)

SpecAbort == InitAgent /\ [][NextAbort]_vars

\* ------------------------------------------------------------ HTTP framing

MaxMessages == 4                     \* messages the peer sends on the connection
MaxChunk == 2                        \* messages one DATA event may carry
RequestMode == 0                     \* Driver.createHttpParser(0)
ResponseMode == 1                    \* Driver.createHttpParser(1)
maxIterations == 100                 \* the feed loops' safety limit

poolVars == <<options, requests, sockets, freeSockets, _totalSockets, req, sock>>

\* What the peer may send, one message each: a complete request without body,
\* the header block of a CONNECT request, a malformed header block, the header
\* block of a request with a body, a piece of a body, the last piece of a
\* body; a complete
\* final response without body, an interim 100 response, an interim 103
\* response, a 101 response, a malformed header block.
Wire(mode) ==
    IF mode = RequestMode THEN {"GET", "CONNECT", "BAD", "POST", "BODY", "LAST"}
    ELSE {"200", "100", "103", "101", "BAD"}

\* The three kinds of string parser.feed returns: '' (no progress), 'ERROR:...',
\* or the JSON of one parsed unit.
NoProgress ==
    [kind |-> "", is_headers |-> FALSE, is_connect |-> FALSE, status |-> 0,
     complete |-> FALSE, body |-> FALSE]
ParseFailed == [NoProgress EXCEPT !.kind = "ERROR:"]
Json(h, c, st, done) ==
    [kind |-> "json", is_headers |-> h, is_connect |-> c, status |-> st,
     complete |-> done, body |-> FALSE]

\* what the parser reports for the message m at the head of its buffer
Unit(m) ==
    IF m = "GET" THEN Json(TRUE, FALSE, 0, TRUE)
    ELSE IF m = "CONNECT" THEN Json(TRUE, TRUE, 0, FALSE)
    ELSE IF m = "POST" THEN Json(TRUE, FALSE, 0, FALSE)
    ELSE IF m = "BODY" THEN [Json(FALSE, FALSE, 0, FALSE) EXCEPT !.body = TRUE]
    ELSE IF m = "LAST" THEN [Json(FALSE, FALSE, 0, TRUE) EXCEPT !.body = TRUE]
    ELSE IF m = "200" THEN Json(TRUE, FALSE, 200, TRUE)
    ELSE IF m = "100" THEN Json(TRUE, FALSE, 100, FALSE)
    ELSE IF m = "103" THEN Json(TRUE, FALSE, 103, FALSE)
    ELSE Json(TRUE, FALSE, 101, FALSE)

\* parser.feed(input): the string returned and the parser afterwards. The parser
\* sees the bytes only: it retires at a CONNECT request and at a 101 response,
\* when a parse fails its session is over, and a final response is framed as a
\* response whatever request it answers. Inside a request's body every piece
\* is body, up to the last one; outside, a body piece is no request line. A
\* request parser numbers the messages it frames (msg) and keeps which message
\* each body piece it reported belongs to and which messages it has completed.
feed(p, input) ==
    LET buf == p.buffer \o input
        counts == p.mode = RequestMode IN
    IF p.phase = "retired" THEN [result |-> NoProgress, parser |-> p]
    ELSE IF p.phase = "failed" THEN [result |-> ParseFailed, parser |-> p]
    ELSE IF buf = <<>> THEN [result |-> NoProgress, parser |-> p]
    ELSE IF p.phase = "body"
    THEN IF Head(buf) = "LAST"
         THEN [result |-> Unit("LAST"),
               parser |-> [p EXCEPT !.phase = "parsing", !.buffer = Tail(buf),
                                    !.bodies = Append(@, p.msg),
                                    !.completed = Append(@, p.msg)]]
         ELSE [result |-> Unit("BODY"),
               parser |-> [p EXCEPT !.buffer = Tail(buf), !.bodies = Append(@, p.msg)]]
    ELSE IF Head(buf) \in {"BAD", "BODY", "LAST"}
    THEN [result |-> ParseFailed,
          parser |-> [p EXCEPT !.phase = "failed", !.buffer = <<>>]]
    ELSE IF Head(buf) \in {"CONNECT", "101"}
    THEN [result |-> Unit(Head(buf)),
          parser |-> [p EXCEPT !.phase = "retired", !.buffer = <<>>]]
    ELSE IF Head(buf) = "POST"
    THEN [result |-> Unit("POST"),
          parser |-> [p EXCEPT !.phase = "body", !.buffer = Tail(buf), !.msg = @ + 1]]
    ELSE [result |-> Unit(Head(buf)),
          parser |-> [p EXCEPT !.buffer = Tail(buf),
                               !.msg = IF counts THEN @ + 1 ELSE @,
                               !.completed = IF counts THEN Append(@, p.msg + 1) ELSE @]]

\* emit(name) on the Server or on the ClientRequest
Emit(c, name) == [c EXCEPT !.events = Append(@, name)]

\* Server._setupHttpConnection: handleParsedResult(result). The requests of the
\* model carry no Upgrade and no Expect header. currentReq numbers the
\* IncomingMessage objects of the connection in the order they are constructed
\* (it is the one `req` refers to while req is not null); pushed lists the
\* ones that were given a body piece, piece by piece, ended the ones that were
\* given push(null), open the ones whose response has not finished.
ServerHandleParsedResult(c, result) ==
    IF result.kind = "ERROR:"
    THEN [c EXCEPT !.errors = @ + 1, !.destroyed = TRUE]
    ELSE IF result.is_headers /\ result.is_connect
    THEN IF c.connectListener
         THEN Emit([c EXCEPT !.listening = FALSE], "connect")
         ELSE [c EXCEPT !.listening = FALSE, !.destroyed = TRUE]
    ELSE LET c1 == IF result.is_headers
                   THEN Emit([c EXCEPT !.req = TRUE, !.currentReq = @ + 1,
                                       !.open = @ \cup {c.currentReq + 1}], "request")
                   ELSE c
             c2 == IF c1.req /\ result.body
                   THEN [c1 EXCEPT !.pushed = Append(@, c1.currentReq)]
                   ELSE c1
         IN  IF c2.req /\ result.complete
             THEN Emit([c2 EXCEPT !.ended = Append(@, c2.currentReq)], "end")
             ELSE c2

\* handleParsedResult without the branch for interim responses: every header
\* block is the final response
ClientHandleParsedResultInterimIsFinal(c, result) ==
    IF result.kind = "ERROR:"
    THEN [c EXCEPT !.errors = @ + 1, !.destroyed = TRUE]
    ELSE LET c1 == IF result.is_headers
                   THEN Emit([c EXCEPT !._res = TRUE], "response")
                   ELSE c
         IN  IF c1._res /\ result.complete
             THEN [Emit(c1, "end") EXCEPT !.listening = FALSE, !.socket = FALSE]
             ELSE c1

\* ClientRequest._attachSocketListeners: handleParsedResult(result); a call on
\* this.socket when it is null throws
ClientHandleParsedResult(c, result) ==
    IF result.kind = "ERROR:"
    THEN IF c.socket THEN [c EXCEPT !.errors = @ + 1, !.destroyed = TRUE]
         ELSE [c EXCEPT !.errors = @ + 1, !.threw = TRUE]
    ELSE IF result.is_headers /\ result.status >= 100 /\ result.status < 200
            /\ result.status # 101
    THEN Emit(c, IF result.status = 100 THEN "continue" ELSE "information")
    ELSE IF result.is_headers /\ result.status = 101
    THEN IF c.socket THEN Emit([c EXCEPT !._res = TRUE, !.listening = FALSE], "upgrade")
         ELSE [c EXCEPT !._res = TRUE, !.threw = TRUE]
    ELSE IF result.is_headers /\ c.method = "CONNECT"
            /\ result.status >= 200 /\ result.status < 300
    THEN IF c.socket THEN Emit([c EXCEPT !._res = TRUE, !.listening = FALSE], "connect")
         ELSE [c EXCEPT !._res = TRUE, !.threw = TRUE]
    ELSE LET c1 == IF result.is_headers
                   THEN Emit([c EXCEPT !._res = TRUE], "response")
                   ELSE c
         IN  IF c1._res /\ result.complete
             THEN [Emit(c1, "end") EXCEPT !.listening = FALSE, !.socket = FALSE]
             ELSE c1

HandleParsedResult(c, result) ==
    IF c.role = "server" THEN ServerHandleParsedResult(c, result)
    ELSE ClientHandleParsedResult(c, result)

\* The feed loop of onData(data), the same in both classes: the connection and
\* the parser it leaves.
RECURSIVE FeedLoop(_, _, _, _)
FeedLoop(c, p, input, iterations) ==
    IF iterations >= maxIterations \/ c.threw THEN [conn |-> c, parser |-> p]
    ELSE LET f == feed(p, input) IN
         IF f.result.kind \in {"", "ERROR:"} THEN [conn |-> c, parser |-> f.parser]
         ELSE FeedLoop(HandleParsedResult(c, f.result), f.parser, <<>>, iterations + 1)

\* the data one DATA event may carry
Chunks(mode) == UNION {[1..k -> Wire(mode)] : k \in 1..MaxChunk}

\* the socket emits 'data' and the class's onData listener runs
OnData(chunk) ==
    /\ conn.listening /\ ~conn.destroyed
    /\ fed + Len(chunk) <= MaxMessages
    /\ LET out == FeedLoop([conn EXCEPT !.threw = FALSE], parser, chunk, 0) IN
          conn' = out.conn /\ parser' = out.parser
    /\ fed' = fed + Len(chunk)
    /\ UNCHANGED nativeVars /\ UNCHANGED poolVars /\ UNCHANGED sideVars

ServerData(chunk) == conn.role = "server" /\ OnData(chunk)
ClientData(chunk) == conn.role = "client" /\ OnData(chunk)

\* the socket emits 'data' after onData was removed: the bytes are the
\* application's
RawData(chunk) ==
    /\ conn.role # "none" /\ ~conn.listening /\ ~conn.destroyed /\ ~conn.closed
    /\ chunk \in Chunks(parser.mode)
    /\ fed + Len(chunk) <= MaxMessages
    /\ fed' = fed + Len(chunk)
    /\ UNCHANGED <<parser, conn>>
    /\ UNCHANGED nativeVars /\ UNCHANGED poolVars /\ UNCHANGED sideVars

\* the server's response to the request k is finished: req = null; res = null
ServerResponseFinish(k) ==
    /\ conn.role = "server" /\ k \in conn.open
    /\ conn' = [conn EXCEPT !.req = FALSE, !.open = @ \ {k}]
    /\ UNCHANGED <<parser, fed>>
    /\ UNCHANGED nativeVars /\ UNCHANGED poolVars /\ UNCHANGED sideVars

\* the server's socket emits 'close': if (req && !req.readableEnded)
\* req.push(null), which does nothing on a stream that was given its end
ServerSocketClosed ==
    /\ conn.role = "server" /\ ~conn.closed
    /\ conn' = [conn EXCEPT !.closed = TRUE, !.listening = FALSE,
                            !.ended = IF conn.req /\ ~Has(conn.ended, conn.currentReq)
                                      THEN Append(@, conn.currentReq) ELSE @]
    /\ UNCHANGED <<parser, fed>>
    /\ UNCHANGED nativeVars /\ UNCHANGED poolVars /\ UNCHANGED sideVars

\* One connection: accepted by an http.Server with or without a 'connect'
\* listener, or the socket a ClientRequest with method GET or CONNECT was given.
InitHttp ==
    /\ InitNative /\ InitPool(DefaultOptions) /\ NoSide /\ fed = 0
    /\ \/ /\ parser = [NoParser EXCEPT !.mode = RequestMode, !.phase = "parsing"]
          /\ \E l \in BOOLEAN :
                conn = [NoConn EXCEPT !.role = "server", !.connectListener = l,
                                      !.listening = TRUE, !.socket = TRUE]
       \/ /\ parser = [NoParser EXCEPT !.mode = ResponseMode, !.phase = "parsing"]
          /\ \E m \in {"GET", "CONNECT"} :
                conn = [NoConn EXCEPT !.role = "client", !.method = m,
                                      !.listening = TRUE, !.socket = TRUE]

NextHttp ==
    \/ \E chunk \in Chunks(RequestMode) : ServerData(chunk)
    \/ \E chunk \in Chunks(ResponseMode) : ClientData(chunk)
    \/ \E chunk \in Chunks(RequestMode) \cup Chunks(ResponseMode) : RawData(chunk)
    \/ \E k \in 1..MaxMessages : ServerResponseFinish(k)
    \/ ServerSocketClosed

SpecHttp == InitHttp /\ [][NextHttp]_vars

\* ------------------------------------------------------------ pipelined bursts

MaxBurst == 101                      \* messages the peer sends in one segment

\* one segment carrying n copies of the message m
Burst(m, n) == [i \in 1..n |-> m]

\* the first DATA event of the connection carries a burst: the socket emits
\* 'data' once and onData runs its feed loop once
OnBurst(m, n) ==
    /\ conn.listening /\ ~conn.destroyed
    /\ fed = 0
    /\ LET out == FeedLoop([conn EXCEPT !.threw = FALSE], parser, Burst(m, n), 0) IN
          conn' = out.conn /\ parser' = out.parser
    /\ fed' = n
    /\ UNCHANGED nativeVars /\ UNCHANGED poolVars /\ UNCHANGED sideVars

\* pipelined requests reach the Server
ServerBurst(n) == conn.role = "server" /\ OnBurst("GET", n)
\* interim responses reach the ClientRequest
ClientBurst(n) == conn.role = "client" /\ OnBurst("100", n)

NextDrain ==
    \/ \E n \in 1..MaxBurst : ServerBurst(n)
    \/ \E n \in 1..MaxBurst : ClientBurst(n)

SpecDrain == InitHttp /\ [][NextDrain]_vars

\* ------------------------------------------------------------ chunked bodies

MaxWrites == 2                       \* write() calls on one message
MaxLen == 2                          \* bytes of one written chunk

\* the bytes a body may hold, the chunks write() may be given and the maps
\* addTrailers() may be given (entries in insertion order)
Payload == {"x", "0"}
Chunk == UNION {[1..k -> Payload] : k \in 0..MaxLen}
TrailerMaps == {<<>>, <<[name |-> "t", value |-> "v"]>>}

HexDigits ==
    <<"0", "1", "2", "3", "4", "5", "6", "7", "8", "9", "a", "b", "c", "d", "e", "f">>
IsHex(b) == \E i \in DOMAIN HexDigits : HexDigits[i] = b
HexValue(b) == (CHOOSE i \in DOMAIN HexDigits : HexDigits[i] = b) - 1

\* len.toString(16)
RECURSIVE toString16(_)
toString16(len) ==
    IF len < 16 THEN <<HexDigits[len + 1]>>
    ELSE toString16(len \div 16) \o <<HexDigits[(len % 16) + 1]>>

\* the lines `${key}: ${value}\r\n` of the entries of a trailer map
RECURSIVE TrailerLines(_)
TrailerLines(t) ==
    IF t = <<>> THEN <<>>
    ELSE <<Head(t).name, ":", " ", Head(t).value, "CR", "LF">> \o TrailerLines(Tail(t))

\* What every OutgoingMessage is as a Writable: ending after end(), writing
\* while a _write waits for its callback, buffered the chunks the Writable keeps
\* meanwhile, ticks the callbacks due on later ticks, in order; sent are the
\* chunks handed to the socket, heads the header names of each header block
\* written, errors the errors thrown at the caller.
Writable ==
    [ending |-> FALSE, finalCalled |-> FALSE, finished |-> FALSE, writing |-> FALSE,
     buffered |-> <<>>, ticks |-> <<>>, chunks |-> <<>>, sent |-> <<>>, wire |-> <<>>,
     heads |-> <<>>, errors |-> 0]

\* a message whose headers were sent with Transfer-Encoding: chunked; _trailers
\* is empty both for null and for {}, which write the same bytes
NewMessage ==
    [role |-> "message", headersSent |-> TRUE, chunkedEncoding |-> TRUE, socket |-> TRUE,
     _hasBody |-> TRUE, _headers |-> {"transfer-encoding"}, _trailers |-> <<>>] @@ Writable

\* this.socket.write(bytes)
SocketWrite(o, bytes) == [o EXCEPT !.wire = @ \o bytes]
\* this.socket.write(bytes, encoding, callback): the socket's Writable calls
\* the callback on a later tick
SocketWriteThen(o, bytes, callback) ==
    [SocketWrite(o, bytes) EXCEPT !.ticks = Append(@, callback)]

\* OutgoingMessage._write(chunk, encoding, callback) with a socket: the size
\* line and the chunk now, the closing CRLF in the callback of the chunk's
\* write; by tells whose callback was passed ("writable": the Writable's own)
_write(o, chunk, by) ==
    LET o1 == [o EXCEPT !.sent = Append(@, chunk)] IN
    IF o.chunkedEncoding
    THEN SocketWriteThen(SocketWrite(o1, toString16(Len(chunk)) \o <<"CR", "LF">>), chunk,
                         [do |-> "crlf", by |-> by])
    ELSE SocketWriteThen(o1, chunk, [do |-> "done", by |-> by])

\* OutgoingMessage._final(callback): the callback lets the Writable finish
_final(o) ==
    IF o.chunkedEncoding /\ o.socket
    THEN SocketWriteThen(o, <<"0", "CR", "LF">> \o TrailerLines(o._trailers) \o <<"CR", "LF">>,
                         [do |-> "finish", by |-> "writable"])
    ELSE [o EXCEPT !.finished = TRUE]

\* OutgoingMessage._sendHeaders(firstLine): without a Content-Length header a
\* message with a body is sent chunked
_sendHeaders(o) ==
    IF o.headersSent THEN o
    ELSE LET chunked == "content-length" \notin o._headers /\ o._hasBody
             o1 == IF chunked
                   THEN [o EXCEPT !._headers = @ \cup {"transfer-encoding"},
                                  !.chunkedEncoding = TRUE]
                   ELSE o
         IN  SocketWrite([o1 EXCEPT !.headersSent = TRUE, !.heads = Append(@, o1._headers)],
                         <<"HEAD">>)

\* ClientRequest._sendRequest()
_sendRequest(o) == _sendHeaders(o)

\* ClientRequest._write(chunk, encoding, callback)
RequestWrite(o, chunk, by) ==
    IF ~o._connected THEN [o EXCEPT !._pendingWrites = Append(@, chunk)]
    ELSE _write(_sendRequest(o), chunk, by)

\* ServerResponse._sendResponseHeaders()
_sendResponseHeaders(o) == _sendHeaders(o)

\* ServerResponse._write(chunk, encoding, callback)
ResponseWrite(o, chunk, by) == _write(_sendResponseHeaders(o), chunk, by)

\* the _write of the message's class
ClassWrite(o, chunk, by) ==
    IF o.role = "request" THEN RequestWrite(o, chunk, by)
    ELSE IF o.role = "response" THEN ResponseWrite(o, chunk, by)
    ELSE _write(o, chunk, by)

\* Writable.write(chunk): a write after end() fails; _write is called at once
\* unless a write is under way
WritableWrite(o, chunk) ==
    IF o.ending THEN [o EXCEPT !.errors = @ + 1]
    ELSE IF o.writing THEN [o EXCEPT !.buffered = Append(@, chunk)]
    ELSE ClassWrite([o EXCEPT !.writing = TRUE], chunk, "writable")

\* the Writable finishes once it is ending and has nothing left to write: it
\* calls _final on the next tick
MaybeFinish(o) ==
    IF o.ending /\ ~o.writing /\ o.buffered = <<>> /\ ~o.finalCalled
    THEN [o EXCEPT !.finalCalled = TRUE, !.ticks = Append(@, [do |-> "final", by |-> "writable"])]
    ELSE o

\* Writable.end()
WritableEnd(o) == IF o.ending THEN o ELSE MaybeFinish([o EXCEPT !.ending = TRUE])

\* the callback t runs: the chunk's write is done and the CRLF is written with
\* the callback _write was given; the Writable's callback takes the next chunk
\* or finishes; a caller's callback does nothing here
RunTick(o, t) ==
    IF t.do = "crlf" THEN SocketWriteThen(o, <<"CR", "LF">>, [do |-> "done", by |-> t.by])
    ELSE IF t.do = "final" THEN _final(o)
    ELSE IF t.do = "finish" THEN [o EXCEPT !.finished = TRUE]
    ELSE IF t.by # "writable" THEN o
    ELSE LET o1 == [o EXCEPT !.writing = FALSE] IN
         IF o1.buffered # <<>>
         THEN ClassWrite([o1 EXCEPT !.buffered = Tail(@), !.writing = TRUE],
                         Head(o1.buffered), "writable")
         ELSE MaybeFinish(o1)

\* a tick: the first callback due runs
WriteCallback ==
    /\ outgoing.role \in {"message", "request", "response"} /\ outgoing.ticks # <<>>
    /\ outgoing' = RunTick([outgoing EXCEPT !.ticks = Tail(@)], Head(outgoing.ticks))
    /\ UNCHANGED nativeVars /\ UNCHANGED poolVars /\ UNCHANGED httpVars
    /\ UNCHANGED <<stream, server, runtime>>

\* The HttpFramer on the body of a chunked message: BodyChunked(Size),
\* BodyChunked(Data(n)), BodyChunked(DataCRLF), BodyChunked(Trailer), Done. It
\* stops at Done, at an error and where the bytes end; rest is what it has not
\* consumed.
BodyChunked ==
    [phase |-> "Size", n |-> 0, digits |-> 0, body |-> <<>>, trailers |-> <<>>,
     rest |-> <<>>]
RECURSIVE Frame(_, _)
Frame(st, b) ==
    LET Stops == [st EXCEPT !.rest = b]
        Fails == [st EXCEPT !.phase = "Error", !.rest = b]
        Line(next) ==
            IF Len(b) < 2 THEN Stops
            ELSE IF b[2] = "LF" THEN Frame(next, Tail(Tail(b)))
            ELSE Fails
    IN  IF st.phase \in {"Done", "Error"} \/ b = <<>> THEN Stops
        ELSE IF st.phase = "Size"
        THEN IF IsHex(Head(b))
             THEN Frame([st EXCEPT !.n = @ * 16 + HexValue(Head(b)), !.digits = @ + 1],
                        Tail(b))
             ELSE IF Head(b) = "CR" /\ st.digits > 0
             THEN Line([st EXCEPT !.phase = IF st.n = 0 THEN "Trailer" ELSE "Data",
                                  !.digits = 0])
             ELSE Fails
        ELSE IF st.phase = "Data"
        THEN Frame([st EXCEPT !.body = Append(@, Head(b)), !.n = @ - 1,
                              !.phase = IF st.n = 1 THEN "DataCRLF" ELSE "Data"],
                   Tail(b))
        ELSE IF st.phase = "DataCRLF"
        THEN IF Head(b) = "CR" THEN Line([st EXCEPT !.phase = "Size"]) ELSE Fails
        ELSE IF Head(b) = "CR" THEN Line([st EXCEPT !.phase = "Done"])
        ELSE IF Len(b) < 6 THEN Stops
        ELSE IF b[2] = ":" /\ b[3] = " " /\ b[5] = "CR" /\ b[6] = "LF"
        THEN Frame([st EXCEPT !.trailers = Append(@, [name |-> b[1], value |-> b[4]])],
                   SubSeq(b, 7, Len(b)))
        ELSE Fails

\* message.write(chunk): the Writable hands the chunk, empty or not, to _write
Write(chunk) ==
    /\ outgoing.role = "message" /\ ~outgoing.ending
    /\ Len(outgoing.chunks) < MaxWrites
    /\ outgoing' = WritableWrite([outgoing EXCEPT !.chunks = Append(@, chunk)], chunk)
    /\ UNCHANGED nativeVars /\ UNCHANGED poolVars /\ UNCHANGED httpVars
    /\ UNCHANGED <<stream, server, runtime>>

\* message.addTrailers(headers)
AddTrailers(headers) ==
    /\ outgoing.role = "message" /\ ~outgoing.ending
    /\ ~(outgoing.headersSent /\ ~outgoing.chunkedEncoding)
    /\ headers # outgoing._trailers
    /\ outgoing' = [outgoing EXCEPT !._trailers = headers]
    /\ UNCHANGED nativeVars /\ UNCHANGED poolVars /\ UNCHANGED httpVars
    /\ UNCHANGED <<stream, server, runtime>>

\* message.end(): the Writable calls _final once its writes are done
End ==
    /\ outgoing.role = "message" /\ ~outgoing.ending
    /\ outgoing' = WritableEnd(outgoing)
    /\ UNCHANGED nativeVars /\ UNCHANGED poolVars /\ UNCHANGED httpVars
    /\ UNCHANGED <<stream, server, runtime>>

InitChunked ==
    /\ InitNative /\ InitPool(DefaultOptions)
    /\ parser = NoParser /\ conn = NoConn /\ fed = 0
    /\ outgoing = NewMessage /\ stream = NoStream /\ server = NoServer
    /\ runtime = NoRuntime

NextChunked ==
    \/ \E chunk \in Chunk : Write(chunk)
    \/ \E headers \in TrailerMaps : AddTrailers(headers)
    \/ End
    \/ WriteCallback

SpecChunked == InitChunked /\ [][NextChunked]_vars

\* ------------------------------------------------------------ Expect: 100-continue

\* a ClientRequest with a body and no Content-Length, after its constructor;
\* expect says whether its headers have Expect: 100-continue
NewRequest(expect) ==
    [role |-> "request", headersSent |-> FALSE, chunkedEncoding |-> FALSE,
     socket |-> FALSE, _hasBody |-> TRUE, _headers |-> {}, _trailers |-> <<>>,
     _connected |-> FALSE, _pendingWrites |-> <<>>, _ended |-> FALSE,
     _expectContinue |-> expect, _continueReceived |-> FALSE] @@ Writable

\* ClientRequest._finishRequest()
_finishRequest(o) == IF ~o._ended THEN o ELSE WritableEnd(o)

\* the loop of _flushPendingWrites over the writes it took: this._write with
\* the callback the caller of write() gave
RECURSIVE WriteAll(_, _)
WriteAll(o, writes) ==
    IF writes = <<>> THEN o
    ELSE WriteAll(RequestWrite(o, Head(writes), "caller"), Tail(writes))

\* _flushPendingWrites that leaves the queue as it was
_flushPendingWritesKeepsQueue(o) ==
    IF ~o.socket THEN o
    ELSE LET o2 == WriteAll(_sendRequest(o), o._pendingWrites)
         IN  IF o2._ended THEN _finishRequest(o2) ELSE o2

\* ClientRequest._flushPendingWrites()
_flushPendingWrites(o) ==
    IF ~o.socket THEN o
    ELSE LET o1 == _sendRequest(o) IN
         IF o1._expectContinue /\ ~o1._continueReceived THEN o1
         ELSE LET o2 == WriteAll([o1 EXCEPT !._pendingWrites = <<>>], o1._pendingWrites)
              IN  IF o2._ended THEN _finishRequest(o2) ELSE o2

\* request.write(chunk)
CallWrite(chunk) ==
    /\ outgoing.role = "request" /\ ~outgoing._ended
    /\ Len(outgoing.chunks) < MaxWrites
    /\ outgoing' =
          LET o == [outgoing EXCEPT !.chunks = Append(@, chunk)] IN
          IF ~o._connected THEN [o EXCEPT !._pendingWrites = Append(@, chunk)]
          ELSE WritableWrite(_sendRequest(o), chunk)
    /\ UNCHANGED nativeVars /\ UNCHANGED poolVars /\ UNCHANGED httpVars
    /\ UNCHANGED <<stream, server, runtime>>

\* request.end()
CallEnd ==
    /\ outgoing.role = "request" /\ ~outgoing._ended
    /\ outgoing' =
          LET o == [outgoing EXCEPT !._ended = TRUE] IN
          IF o._connected THEN WritableEnd(_sendRequest(o)) ELSE o
    /\ UNCHANGED nativeVars /\ UNCHANGED poolVars /\ UNCHANGED httpVars
    /\ UNCHANGED <<stream, server, runtime>>

\* the request is given its socket: onSocket(socket), or connectCallback
SocketAssigned ==
    /\ outgoing.role = "request" /\ ~outgoing._connected
    /\ outgoing' =
          _flushPendingWrites(_sendRequest([outgoing EXCEPT !.socket = TRUE,
                                                            !._connected = TRUE]))
    /\ UNCHANGED nativeVars /\ UNCHANGED poolVars /\ UNCHANGED httpVars
    /\ UNCHANGED <<stream, server, runtime>>

\* handleParsedResult on a header block with status 100
Receive100 ==
    /\ outgoing.role = "request" /\ outgoing._connected
    /\ ~outgoing._continueReceived
    /\ outgoing' = _flushPendingWrites([outgoing EXCEPT !._continueReceived = TRUE])
    /\ UNCHANGED nativeVars /\ UNCHANGED poolVars /\ UNCHANGED httpVars
    /\ UNCHANGED <<stream, server, runtime>>

InitContinue ==
    /\ InitNative /\ InitPool(DefaultOptions)
    /\ parser = NoParser /\ conn = NoConn /\ fed = 0
    /\ runtime = NoRuntime
    /\ \E expect \in BOOLEAN : outgoing = NewRequest(expect)
    /\ stream = NoStream /\ server = NoServer

NextContinue ==
    \/ \E chunk \in Chunk : CallWrite(chunk)
    \/ CallEnd
    \/ SocketAssigned
    \/ Receive100
    \/ WriteCallback

SpecContinue == InitContinue /\ [][NextContinue]_vars

\* ------------------------------------------------------------ ServerResponse

MaxErrors == 2                       \* header calls made after the headers were sent

\* the header names an application gives to setHeader and writeHead
HeaderNames == {"content-length", "transfer-encoding", "x-app"}

\* new ServerResponse(socket); given are the headers the application has set
NewResponse ==
    [role |-> "response", headersSent |-> FALSE, chunkedEncoding |-> FALSE,
     socket |-> TRUE, _hasBody |-> TRUE, _headers |-> {}, _trailers |-> <<>>,
     statusCode |-> 200, given |-> {}] @@ Writable

\* OutgoingMessage.setHeader(name, value)
setHeader(o, name) ==
    IF o.headersSent THEN [o EXCEPT !.errors = @ + 1]
    ELSE [o EXCEPT !._headers = @ \cup {name}]

\* ServerResponse.writeHead(statusCode, headers): nothing is sent yet
writeHead(o, statusCode, names) ==
    IF o.headersSent THEN [o EXCEPT !.errors = @ + 1]
    ELSE [o EXCEPT !.statusCode = statusCode, !._headers = @ \cup names]

\* OutgoingMessage.end(chunk): write(chunk) if there is one, then super.end()
messageEnd(o, chunk) ==
    WritableEnd(IF chunk # <<>>
                THEN WritableWrite([o EXCEPT !.chunks = Append(@, chunk)], chunk)
                ELSE o)

\* ServerResponse.end(chunk): as the first output it sets Content-Length and
\* sends the headers
responseEnd(o, chunk) ==
    messageEnd(IF ~o.headersSent
               THEN _sendResponseHeaders(setHeader(o, "content-length"))
               ELSE o,
               chunk)

\* the application calls response.setHeader(name, value)
ResSetHeader(name) ==
    /\ outgoing.role = "response" /\ outgoing.errors < MaxErrors
    /\ outgoing' = setHeader([outgoing EXCEPT !.given = IF outgoing.headersSent THEN @
                                                         ELSE @ \cup {name}], name)
    /\ UNCHANGED nativeVars /\ UNCHANGED poolVars /\ UNCHANGED httpVars
    /\ UNCHANGED <<stream, server, runtime>>

\* the application calls response.writeHead(201, headers)
ResWriteHead(names) ==
    /\ outgoing.role = "response" /\ outgoing.errors < MaxErrors
    /\ outgoing' = writeHead([outgoing EXCEPT !.given = IF outgoing.headersSent THEN @
                                                         ELSE @ \cup names], 201, names)
    /\ UNCHANGED nativeVars /\ UNCHANGED poolVars /\ UNCHANGED httpVars
    /\ UNCHANGED <<stream, server, runtime>>

\* the application calls response.write(chunk)
ResWrite(chunk) ==
    /\ outgoing.role = "response" /\ ~outgoing.ending
    /\ Len(outgoing.chunks) < MaxWrites
    /\ outgoing' = WritableWrite([outgoing EXCEPT !.chunks = Append(@, chunk)], chunk)
    /\ UNCHANGED nativeVars /\ UNCHANGED poolVars /\ UNCHANGED httpVars
    /\ UNCHANGED <<stream, server, runtime>>

\* the application calls response.end(chunk), or response.end() (empty chunk)
ResEnd(chunk) ==
    /\ outgoing.role = "response" /\ ~outgoing.ending
    /\ outgoing' = responseEnd(outgoing, chunk)
    /\ UNCHANGED nativeVars /\ UNCHANGED poolVars /\ UNCHANGED httpVars
    /\ UNCHANGED <<stream, server, runtime>>

InitResponse ==
    /\ InitNative /\ InitPool(DefaultOptions)
    /\ parser = NoParser /\ conn = NoConn /\ fed = 0
    /\ outgoing = NewResponse /\ stream = NoStream /\ server = NoServer
    /\ runtime = NoRuntime

NextResponse ==
    \/ \E name \in HeaderNames : ResSetHeader(name)
    \/ \E names \in SUBSET HeaderNames : ResWriteHead(names)
    \/ \E chunk \in Chunk : ResWrite(chunk)
    \/ \E chunk \in Chunk : ResEnd(chunk)
    \/ WriteCallback

SpecResponse == InitResponse /\ [][NextResponse]_vars

\* ------------------------------------------------------------ net.Socket as a stream

MaxData == 3                         \* DATA events the engine delivers on a connection
HighWaterMark == 2                   \* payloads the Readable holds before push is false

\* the Socket looked at, and its driver
TheSocket == CHOOSE s \in Sockets : \A k \in Sockets : s <= k

\* A Socket the application constructs, listens to ('data', 'error', 'close') and
\* connects. paused, shutdown, forwarded and connects tell what the driver was
\* asked: the last of pause()/resume(), shutdown(), the write() calls, the
\* connect() calls. seen lists what the consumer has observed; payloads are
\* numbered in the order the engine delivers them.
NewStream ==
    [role |-> "socket", phase |-> "unborn", destroyed |-> FALSE, _driver |-> FALSE,
     _hadError |-> FALSE, flowing |-> FALSE, buffer |-> <<>>, eof |-> FALSE,
     endEmitted |-> FALSE, writableEnded |-> FALSE, closePending |-> FALSE,
     paused |-> FALSE, shutdown |-> FALSE, forwarded |-> 0, connects |-> 0,
     received |-> 0, attempts |-> 0, seen |-> <<>>]

\* the consumer observes the event ev
See(st, ev, n) == [st EXCEPT !.seen = Append(@, [ev |-> ev, n |-> n])]

\* if (this._driver) this._driver.pause() / resume()
DriverPause(st) == IF st._driver THEN [st EXCEPT !.paused = TRUE] ELSE st
DriverResume(st) == IF st._driver THEN [st EXCEPT !.paused = FALSE] ELSE st

\* Socket._read(size)
Socket_read(st) == DriverResume(st)

\* the Readable hands all it holds to the 'data' listener
Flow(st) ==
    [st EXCEPT !.seen = @ \o [i \in DOMAIN st.buffer |-> [ev |-> "data", n |-> st.buffer[i]]],
               !.buffer = <<>>]

\* Socket.pause(): Readable.pause(), then the driver
pause(st) == DriverPause([st EXCEPT !.flowing = FALSE])

\* Socket.resume(): Readable.resume(), then the driver; the Readable flows, and
\* reading it calls _read
resume(st) == Socket_read(Flow(DriverResume([st EXCEPT !.flowing = TRUE])))

\* stream.read(): the consumer takes what is buffered; the Readable calls _read
read(st) == Socket_read(Flow(st))

\* Readable.push(buffer): a flowing stream that holds nothing emits 'data' at
\* once, any other buffers the payload
push(st, n) ==
    IF st.flowing /\ st.buffer = <<>> THEN See(st, "data", n)
    ELSE [st EXCEPT !.buffer = Append(@, n)]
\* what that push returns
pushReturns(st) == Len(st.buffer) < HighWaterMark

\* NetSocketEvent.DATA without the pause: the Readable always reads on
onDataNoPause(st) ==
    Socket_read(push([st EXCEPT !.received = @ + 1], st.received + 1))

\* NetSocketEvent.DATA: if (!this.push(buffer)) this.pause(); below the mark the
\* Readable reads on (maybeReadMore calls _read)
onData(st) ==
    LET pushed == push([st EXCEPT !.received = @ + 1], st.received + 1) IN
    IF ~pushReturns(pushed) THEN pause(pushed) ELSE Socket_read(pushed)

\* Socket._destroy, called by Duplex.destroy() once
Socket_destroy(st) ==
    IF st.destroyed THEN st
    ELSE [st EXCEPT !.destroyed = TRUE, !._driver = FALSE, !.phase = "closed",
                    !.closePending = TRUE]

\* NetSocketEvent.ERROR without the destroy()
onErrorNoDestroy(st) == See([st EXCEPT !._hadError = TRUE], "error", 0)

\* NetSocketEvent.ERROR: emit('error', error); this.destroy()
onError(st) == Socket_destroy(See([st EXCEPT !._hadError = TRUE], "error", 0))

\* Socket._final(callback)
Socket_final(st) == IF st._driver THEN [st EXCEPT !.shutdown = TRUE] ELSE st

\* socket.end(): Writable.end() calls _final once
socketEnd(st) ==
    IF st.writableEnded THEN st ELSE Socket_final([st EXCEPT !.writableEnded = TRUE])

\* Socket._write(chunk, encoding, callback)
Socket_write(st) ==
    IF ~st._driver THEN See(st, "rejected", st.attempts)
    ELSE [st EXCEPT !.forwarded = @ + 1]

\* socket.write(chunk) with a Writable that does not look at end()
socketWriteAfterEnd(st) == Socket_write([st EXCEPT !.attempts = @ + 1])

\* socket.write(chunk): Writable.write() fails a write after end() and calls
\* _write for any other
socketWrite(st) ==
    IF st.writableEnded
    THEN See([st EXCEPT !.attempts = @ + 1], "rejected", st.attempts + 1)
    ELSE Socket_write([st EXCEPT !.attempts = @ + 1])

\* what a step that destroys the Socket asks of its driver
StreamDriverDestroy(old, new) ==
    IF new.destroyed /\ ~old.destroyed /\ old._driver THEN destroy(TheSocket) ELSE <<>>

\* the engine's event reaches driver.onEvent: the driver's handler is registered
Arrives ==
    /\ Idle(JS) /\ TheSocket \in DOMAIN _handlers /\ _onEvent[TheSocket]
    /\ stream.role = "socket"

\* the JS layer besides the stream
besideStream == <<poolVars, httpVars, outgoing, server, runtime>>

\* new Socket(): the driver is created and its handler registered; on('data')
\* resumes the stream; connect(options)
StreamNew ==
    /\ Idle(JS) /\ stream.role = "socket" /\ stream.phase = "unborn"
    /\ stream' = [DriverResume([stream EXCEPT !._driver = TRUE, !.flowing = TRUE])
                    EXCEPT !.phase = "connecting", !.connects = @ + 1]
    /\ NativeBecomes(RunAll(ConstructSteps, JS, TheSocket, Created(Native, TheSocket)))
    /\ UNCHANGED thread /\ UNCHANGED besideStream

\* NetSocketEvent.CONNECT
StreamConnect ==
    /\ Arrives /\ stream.phase = "connecting"
    /\ stream' = resume([stream EXCEPT !.phase = "open"])
    /\ UNCHANGED nativeVars /\ UNCHANGED besideStream

\* NetSocketEvent.DATA
StreamData ==
    /\ Arrives /\ stream.phase = "open" /\ stream.received < MaxData
    /\ stream' = onData(stream)
    /\ UNCHANGED nativeVars /\ UNCHANGED besideStream

\* NetSocketEvent.ERROR
StreamError ==
    /\ Arrives /\ stream.phase \in {"connecting", "open"}
    /\ stream' = onError(stream)
    /\ CallDriver(TheSocket, StreamDriverDestroy(stream, stream'))
    /\ UNCHANGED besideStream

\* NetSocketEvent.CLOSE: push(null); emit('close', this._hadError)
StreamClose ==
    /\ Arrives /\ stream.phase \in {"connecting", "open"}
    /\ stream' = See([stream EXCEPT !.phase = "closed", !.eof = TRUE], "close", 0)
    /\ UNCHANGED nativeVars /\ UNCHANGED besideStream

\* the Readable has given out all it held before the end: it emits 'end', and
\* the Duplex (allowHalfOpen: false) ends its writable side
StreamEndTick ==
    /\ Idle(JS) /\ stream.role = "socket" /\ ~stream.destroyed
    /\ stream.eof /\ stream.buffer = <<>> /\ ~stream.endEmitted
    /\ stream' = socketEnd(See([stream EXCEPT !.endEmitted = TRUE], "end", 0))
    /\ UNCHANGED nativeVars /\ UNCHANGED besideStream

\* the tick after destroy(): the stream emits 'close'
StreamCloseTick ==
    /\ Idle(JS) /\ stream.role = "socket" /\ stream.closePending
    /\ stream' = See([stream EXCEPT !.closePending = FALSE], "close", 0)
    /\ UNCHANGED nativeVars /\ UNCHANGED besideStream

\* the consumer calls socket.write(chunk)
StreamWrite ==
    /\ Idle(JS) /\ stream.role = "socket" /\ stream.phase # "unborn"
    /\ stream.attempts < MaxWrites
    /\ stream' = socketWrite(stream)
    /\ UNCHANGED nativeVars /\ UNCHANGED besideStream

\* the consumer calls socket.end()
StreamEnd ==
    /\ Idle(JS) /\ stream.role = "socket" /\ stream.phase # "unborn"
    /\ ~stream.writableEnded
    /\ stream' = socketEnd(stream)
    /\ UNCHANGED nativeVars /\ UNCHANGED besideStream

\* the consumer calls socket.pause()
StreamPause ==
    /\ Idle(JS) /\ stream.role = "socket" /\ stream.phase = "open"
    /\ stream.flowing
    /\ stream' = pause(stream)
    /\ UNCHANGED nativeVars /\ UNCHANGED besideStream

\* the consumer calls socket.resume()
StreamResume ==
    /\ Idle(JS) /\ stream.role = "socket" /\ stream.phase # "unborn"
    /\ ~stream.destroyed /\ ~stream.flowing
    /\ stream' = resume(stream)
    /\ UNCHANGED nativeVars /\ UNCHANGED besideStream

\* the consumer calls socket.read() on a stream that holds data
StreamRead ==
    /\ Idle(JS) /\ stream.role = "socket" /\ ~stream.destroyed
    /\ stream.buffer # <<>>
    /\ stream' = read(stream)
    /\ UNCHANGED nativeVars /\ UNCHANGED besideStream

\* the consumer calls socket.destroy()
StreamDestroy ==
    /\ Idle(JS) /\ stream.role = "socket" /\ stream.phase # "unborn"
    /\ ~stream.destroyed
    /\ stream' = Socket_destroy(stream)
    /\ CallDriver(TheSocket, StreamDriverDestroy(stream, stream'))
    /\ UNCHANGED besideStream

InitStream ==
    /\ InitNative /\ InitPool(DefaultOptions)
    /\ parser = NoParser /\ conn = NoConn /\ fed = 0
    /\ outgoing = NoOut /\ stream = NewStream /\ server = NoServer
    /\ runtime = NoRuntime

NextStream ==
    \/ StreamNew
    \/ StreamConnect
    \/ StreamData
    \/ StreamError
    \/ StreamClose
    \/ StreamEndTick
    \/ StreamCloseTick
    \/ StreamWrite
    \/ StreamEnd
    \/ StreamPause
    \/ StreamResume
    \/ StreamRead
    \/ StreamDestroy

SpecStream == InitStream /\ [][NextStream]_vars

\* ------------------------------------------------------------ net.Server

MaxAccepts == 3                      \* connections the engine hands to the server

MaxLimit == 2                        \* largest server.maxConnections set
Clients == 1..MaxAccepts
\* the Socket of an accepted connection: closes counts the 'close' events it has
\* emitted, destroyCalls the destroy() calls made on it; onEvent tells whose
\* callback the connection's driver holds: this Socket's, or that of the
\* TLSSocket made from it
NoClient ==
    [state |-> "unborn", destroyed |-> FALSE, closePending |-> FALSE, closes |-> 0,
     destroyCalls |-> 0, onEvent |-> "socket"]
\* new Server() with server.maxConnections = n (0: no limit), of net or, with
\* tls, of tls: nothing tracked; connections and drops count the 'connection'
\* and 'drop' events emitted
NewServer(n, tls) ==
    [role |-> "server", tls |-> tls, _sockets |-> {}, _connections |-> 0,
     _maxConnections |-> n,
     closeIssued |-> FALSE, connections |-> 0, drops |-> 0,
     client |-> [c \in Clients |-> NoClient]]

\* the socket c emits 'close': the listener the server gave it when it accepted it
onSocketClose(sv, c) ==
    [sv EXCEPT !.client[c].closes = @ + 1,
               !._connections = @ - 1,
               !._sockets = @ \ {c}]

\* socket.destroy() on the socket c: a destroyed one stays as it is, any other is
\* destroyed and emits 'close' on a later tick
clientDestroy(sv, c) ==
    IF sv.client[c].destroyed THEN [sv EXCEPT !.client[c].destroyCalls = @ + 1]
    ELSE [sv EXCEPT !.client[c].destroyed = TRUE, !.client[c].closePending = TRUE,
                    !.client[c].destroyCalls = @ + 1]

\* for (const socket of this._sockets) socket.destroy()
RECURSIVE DestroyAll(_, _)
DestroyAll(sv, tracked) ==
    IF tracked = {} THEN sv
    ELSE LET c == CHOOSE x \in tracked : TRUE IN
         DestroyAll(clientDestroy(sv, c), tracked \ {c})

\* close() as in Node: the listener is closed, the connections are left alone
serverCloseKeepsConnections(sv) == [sv EXCEPT !.closeIssued = TRUE]

\* Server.close(callback)
serverClose(sv) ==
    [DestroyAll(sv, sv._sockets) EXCEPT !._sockets = {}, !._connections = 0,
                                        !.closeIssued = TRUE]

\* the JS layer besides the server
besideServer == <<poolVars, httpVars, outgoing, stream, runtime>>

\* the CONNECTION handler for the client id c: at maxConnections the socket is
\* created, 'drop' is emitted and the socket destroyed (no listener of the
\* server is on it); below it the socket is tracked, counted, given the 'close'
\* listener and 'connection' is emitted, on which a tls.Server makes a
\* TLSSocket of the socket's driver: the Socket constructor sets driver.onEvent
onConnection(sv, c) ==
    IF sv._maxConnections > 0 /\ sv._connections >= sv._maxConnections
    THEN [sv EXCEPT !.client[c] = [NoClient EXCEPT !.state = "dropped", !.destroyed = TRUE,
                                                   !.destroyCalls = 1],
                    !.drops = @ + 1]
    ELSE [sv EXCEPT !.client[c].state = "open",
                    !.client[c].onEvent = IF sv.tls THEN "tls" ELSE "socket",
                    !._sockets = @ \cup {c},
                    !._connections = @ + 1,
                    !.connections = @ + 1]

\* NetServerEvent.CONNECTION with a client id
ServerAccept(c) ==
    /\ server.role = "server" /\ ~server.closeIssued
    /\ server.client[c].state = "unborn"
    /\ \A k \in 1..(c - 1) : server.client[k].state # "unborn"
    /\ server' = onConnection(server, c)
    /\ UNCHANGED nativeVars /\ UNCHANGED besideServer

\* NetSocketEvent.CLOSE of an accepted connection, given to the callback its
\* driver holds: that Socket does emit('close', this._hadError), and the
\* server's listener is on the accepted Socket
ServerSocketClose(c) ==
    /\ server.role = "server"
    /\ server.client[c].state = "open" /\ ~server.client[c].destroyed
    /\ server' = IF server.client[c].onEvent = "socket"
                 THEN onSocketClose([server EXCEPT !.client[c].state = "closed"], c)
                 ELSE [server EXCEPT !.client[c].state = "closed"]
    /\ UNCHANGED nativeVars /\ UNCHANGED besideServer

\* the application calls destroy() on an accepted socket
ServerSocketDestroy(c) ==
    /\ server.role = "server"
    /\ server.client[c].state \in {"open", "closed"} /\ ~server.client[c].destroyed
    /\ server' = clientDestroy(server, c)
    /\ UNCHANGED nativeVars /\ UNCHANGED besideServer

\* the tick after destroy(): the socket emits 'close'
ServerSocketCloseTick(c) ==
    /\ server.role = "server" /\ server.client[c].closePending
    /\ server' = onSocketClose([server EXCEPT !.client[c].closePending = FALSE], c)
    /\ UNCHANGED nativeVars /\ UNCHANGED besideServer

\* the application calls server.close()
ServerClose ==
    /\ server.role = "server" /\ ~server.closeIssued
    /\ server' = serverClose(server)
    /\ UNCHANGED nativeVars /\ UNCHANGED besideServer

InitServer ==
    /\ InitNative /\ InitPool(DefaultOptions)
    /\ parser = NoParser /\ conn = NoConn /\ fed = 0
    /\ outgoing = NoOut /\ stream = NoStream /\ runtime = NoRuntime
    /\ \E n \in 0..MaxLimit, tls \in BOOLEAN : server = NewServer(n, tls)

NextServer ==
    \/ \E c \in Clients : ServerAccept(c)
    \/ \E c \in Clients : ServerSocketClose(c)
    \/ \E c \in Clients : ServerSocketDestroy(c)
    \/ \E c \in Clients : ServerSocketCloseTick(c)
    \/ ServerClose

SpecServer == InitServer /\ [][NextServer]_vars

\* ------------------------------------------------- module initialization

MaxCalls == 3                        \* operations performed on the module
MaxThreads == 2                      \* largest workerThreads asked for

\* a NetConfig: workerThreads (-1: not given) and debug ("unset": not given)
Configs == [workerThreads : -1..MaxThreads, debug : {"unset", "on", "off"}]
\* the operations on the module: initWithConfig(config), new Socket(), new Server()
Ops == {"initWithConfig", "socket", "server"}

\* the module once loaded: _isInitialized and _isVerbose of net.ts, the static
\* NetManager instance (not constructed yet) and its _initialized, the init
\* calls the engine has received and the operations performed so far
NewModule ==
    [role |-> "module", _isInitialized |-> FALSE, _isVerbose |-> FALSE,
     instance |-> FALSE, _initialized |-> FALSE, engine |-> <<>>, calls |-> <<>>]

\* NetManager::initializeRuntime(workerThreads)
initializeRuntime(rt, workerThreads) ==
    IF rt._initialized THEN rt
    ELSE [rt EXCEPT !._initialized = TRUE,
                    !.engine = Append(@, IF workerThreads > 0
                                         THEN [fn |-> "net_init_with_config", n |-> workerThreads]
                                         ELSE [fn |-> "net_init", n |-> 0])]

\* NetManager::shared(): the first use constructs the instance, and the
\* constructor calls initializeRuntime(0)
shared(rt) ==
    IF rt.instance THEN rt ELSE initializeRuntime([rt EXCEPT !.instance = TRUE], 0)

\* HybridNetDriver::initWithConfig(config): workerThreads.value_or(0), then
\* NetManager::shared().initWithConfig(workerThreads)
Driver_initWithConfig(rt, config) ==
    LET workerThreads == IF config.workerThreads = -1 THEN 0 ELSE config.workerThreads
        mgr == shared(rt) IN
    IF ~mgr._initialized THEN initializeRuntime(mgr, workerThreads) ELSE mgr

\* initWithConfig(config) of net.ts
initWithConfig(rt, config) ==
    Driver_initWithConfig(
        [rt EXCEPT !._isInitialized = TRUE,
                   !._isVerbose = IF config.debug = "unset" THEN @ ELSE config.debug = "on"],
        config)

\* ensureInitialized(), then Driver.createSocket() or Driver.createServer(),
\* whose driver registers its handler with NetManager::shared()
createDriver(rt) ==
    shared(IF ~rt._isInitialized
           THEN initWithConfig(rt, [workerThreads |-> -1, debug |-> "unset"])
           ELSE rt)

\* what was asked of the module
Called(rt, op, config) == [rt EXCEPT !.calls = Append(@, [op |-> op, config |-> config])]

\* the application calls initWithConfig(config)
CallInitWithConfig(config) ==
    /\ runtime.role = "module" /\ Len(runtime.calls) < MaxCalls
    /\ runtime' = Called(initWithConfig(runtime, config), "initWithConfig", config)
    /\ UNCHANGED nativeVars /\ UNCHANGED <<poolVars, httpVars, outgoing, stream, server>>

\* the application constructs a Socket or a Server
CreateObject(op) ==
    /\ runtime.role = "module" /\ Len(runtime.calls) < MaxCalls
    /\ runtime' = Called(createDriver(runtime), op, [workerThreads |-> -1, debug |-> "unset"])
    /\ UNCHANGED nativeVars /\ UNCHANGED <<poolVars, httpVars, outgoing, stream, server>>

InitModule ==
    /\ InitNative /\ InitPool(DefaultOptions)
    /\ parser = NoParser /\ conn = NoConn /\ fed = 0
    /\ outgoing = NoOut /\ stream = NoStream /\ server = NoServer
    /\ runtime = NewModule

NextModule ==
    \/ \E config \in Configs : CallInitWithConfig(config)
    \/ \E op \in Ops \ {"initWithConfig"} : CreateObject(op)

SpecModule == InitModule /\ [][NextModule]_vars

Init == InitNative /\ InitJS(DefaultOptions)

Next == NextNative

Spec == Init /\ [][Next]_vars

\* ======================================================================
\* Properties of the registry and the drivers (specification Spec)
\* ======================================================================

\* thread t waits for the exclusive lock
WaitsForLock(t) == At(t, "unreg_lock") \/ At(t, "reg_lock")
\* the threads whose lock ownership keeps t waiting
Blockers(t) == IF WaitsForLock(t) THEN _mutex.shared \cup _mutex.unique ELSE {}
\* no thread of D can ever go on: each waits for a lock another one of D (or itself) holds
Deadlocked(D) == D # {} /\ \A t \in D : Blockers(t) \cap D # {}
\* thread t runs the body of a handler (onNativeEvent and all it calls)
InHandler(t) ==
    t \in Workers /\ ~Idle(t) /\ ~At(t, "unlock") /\ ~At(t, "invoke")

\* C1: dispatch calls the handler only after it released the shared lock, so a
\* handler that calls unregisterHandler for its own id (the server driver on
\* CLOSE) is never stuck: no thread inside a handler holds the lock, and no set of
\* threads waits on the lock in a cycle.
C1_HandlerOutsideLockNoDeadlock ==
    /\ \A t \in Workers : InHandler(t) /\ WaitsForLock(t) => t \notin _mutex.shared
    /\ \A D \in SUBSET Threads : ~Deadlocked(D)
\* the server driver's handler, run by a worker on CLOSE, has unregistered its own id
\* and goes on with destroy()
C1_Witness ==
    \E t \in Workers :
        /\ At(t, "engine_destroy") /\ thread[t].eventType = EV_CLOSE
        /\ IsServer(thread[t].self) /\ thread[t].self \notin DOMAIN _handlers

\* C2: a handler is never called on a driver whose destroy() has completed (or
\* which has been freed): every call dispatch makes finds its driver undestroyed.
C2_NoCallAfterDestroy ==
    [][\A t \in Workers :
          (At(t, "invoke") /\ thread[t].handler # NoHandler /\ thread'[t] # thread[t])
              => ~Destroyed(thread[t].handler)]_vars

\* C3: on every destruction path a driver issues the engine's release command
\* only after it has unregistered its handler.
C3_UnregisterBeforeEngineDestroy ==
    \A d \in Drivers : \A i \in DOMAIN cmds[d] :
        cmds[d][i] = "engine_destroy" => \E j \in 1..(i - 1) : cmds[d][j] = "unregister"

\* C4: a dispatch for an id without a handler calls no handler and leaves the
\* registry as it is; unregisterHandler for an absent id leaves the registry as it
\* is; both return normally.
C4_AbsentIdIsNoOp ==
    [][/\ \A t \in Workers :
            (Idle(t) /\ ~Idle(t)' /\ evId(t) \notin DOMAIN _handlers)
                => thread'[t].handler = NoHandler /\ _handlers' = _handlers
       /\ \A t \in Workers :
            (At(t, "invoke") /\ thread[t].handler = NoHandler /\ thread'[t] # thread[t])
                => Idle(t)' /\ _handlers' = _handlers
       /\ \A t \in Threads :
            (At(t, "unreg_erase") /\ thread'[t] # thread[t]
               /\ _id[thread[t].self] \notin DOMAIN _handlers)
                => _handlers' = _handlers /\ ~At(t, "unreg_erase")']_vars
\* a dispatch found no handler for its id while another id has one
C4_Witness ==
    \E t \in Workers :
        /\ At(t, "invoke") /\ thread[t].handler = NoHandler
        /\ DOMAIN _handlers # {} /\ evId(t) \notin DOMAIN _handlers

\* C5: dispatch is not serialised across ids: a running handler holds the lock
\* in no mode, so the lookup for another id is never blocked by it, and handlers
\* of different ids run at the same time.
C5_HandlersDoNotBlockOtherIds ==
    /\ \A t \in Workers :
          (At(t, "onNativeEvent") \/ At(t, "onEvent_return"))
              => t \notin _mutex.shared \cup _mutex.unique
    /\ \A t, u \in Workers :
          (t # u /\ At(t, "onEvent_return") /\ Idle(u)
             /\ \A w \in Threads : ~At(w, "reg_store") /\ ~At(w, "unreg_erase"))
              => ENABLED Dispatch(u)
\* two handlers, of different ids, are running at once
C5_Witness ==
    \E t, u \in Workers :
        t # u /\ At(t, "onEvent_return") /\ At(u, "onEvent_return")
              /\ thread[t].self # thread[u].self

\* ======================================================================
\* Properties of the JS layer (specification SpecAgent)
\* ======================================================================

\* how often a driver issued the call c
Count(calls, c) == Cardinality({i \in DOMAIN calls : calls[i] = c})
\* addRequest runs for request r in this step
Adds(r) == req[r].state = "unborn" /\ req'[r].state # "unborn"
\* no Socket is constructed in this step
NoNewConnection == \A x \in Sockets : sock[x].state = "unborn" => sock'[x].state = "unborn"

\* C6: destruction is idempotent. A destroyed socket's driver has issued
\* unregisterHandler and the engine's destroy command once each, whatever is
\* called on it afterwards (destroy() again, the collector's destructor), and a
\* destroy() on a destroyed socket changes neither the registry nor the Agent's
\* lists and counter, and schedules no event.
C6_DestroyIsIdempotent ==
    [][\A s \in Sockets :
          /\ sock'[s].destroyed
                => /\ Count(cmds'[s], "unregister") = 1
                   /\ Count(cmds'[s], "engine_destroy") = 1
          /\ ~sock'[s].destroyed => cmds'[s] = <<>>
          /\ (sock[s].destroyed /\ CallSocketDestroy(s))
                => UNCHANGED <<_handlers, cmds, requests, sockets, freeSockets,
                               _totalSockets, req, sock>>]_vars
\* a destroyed socket, still in the Agent's list of sockets in use, has emitted
\* 'close', and its driver's destructor has called destroy() once more
C6_Witness ==
    \E s \in Sockets :
        /\ sock[s].destroyed /\ ~sock[s].closePending /\ life[s] = "freed"
        /\ cmds[s] = <<"unregister", "engine_destroy">>
        /\ \E n \in Names : Has(sockets[n], s)

\* C7: addRequest with a free socket under the request's key takes exactly one
\* socket off the free list (lifo: the one freed last, fifo: the one freed
\* first), appends it to the sockets in use, hands it to the request at once,
\* opens no connection and leaves the counter as it is.
C7_AddRequestReusesFreeSocket ==
    [][\A r \in Requests :
          (Adds(r) /\ freeSockets[req'[r].name] # <<>>)
              => LET n == req'[r].name
                     free == freeSockets[n]
                     s == IF options.scheduling = "lifo" THEN free[Len(free)]
                          ELSE Head(free)
                 IN  /\ freeSockets'[n] = IF options.scheduling = "lifo"
                                          THEN SubSeq(free, 1, Len(free) - 1)
                                          ELSE Tail(free)
                     /\ sockets'[n] = Append(sockets[n], s)
                     /\ req'[r].socket = s /\ req'[r].state = "sent"
                     /\ sock'[s].req = r
                     /\ _totalSockets' = _totalSockets
                     /\ NoNewConnection /\ life' = life
                     /\ requests' = requests]_vars
\* under fifo a request got the socket freed first while the one freed later
\* stays free
C7_Witness ==
    \E r \in Requests, n \in Names :
        /\ options.scheduling = "fifo" /\ options.keepAlive
        /\ req[r].state = "sent" /\ req[r].name = n
        /\ Has(sockets[n], req[r].socket) /\ sock[req[r].socket].closeL > 0
        /\ freeSockets[n] # <<>>
        /\ \A k \in Requests \ {r} : req[k].state = "done"

\* C8: addRequest without a free socket under the key: below both limits it
\* adds one to the counter and has the request open a connection; else it
\* appends the request at the tail of the key's queue, grants no socket and
\* leaves the counter as it is.
C8_AddRequestConnectsOrQueues ==
    [][\A r \in Requests :
          (Adds(r) /\ freeSockets[req'[r].name] = <<>>)
              => LET n == req'[r].name IN
                 IF Len(sockets[n]) < options.maxSockets
                    /\ _totalSockets < options.maxTotalSockets
                 THEN /\ _totalSockets' = _totalSockets + 1
                      /\ req'[r].state = "connecting"
                      /\ \E s \in Sockets :
                            /\ sock[s].state = "unborn" /\ sock'[s].state = "connecting"
                            /\ req'[r].socket = s
                            /\ sockets'[n] = Append(sockets[n], s)
                      /\ requests' = requests /\ freeSockets' = freeSockets
                 ELSE /\ requests'[n] = Append(requests[n], r)
                      /\ req'[r].state = "queued" /\ req'[r].socket = NoSocket
                      /\ _totalSockets' = _totalSockets
                      /\ sockets' = sockets /\ freeSockets' = freeSockets
                      /\ sock' = sock /\ NoNewConnection]_vars
\* a request was queued behind another one: the key has as many sockets in use
\* as maxSockets allows
C8_Witness ==
    \E n \in Names :
        /\ Len(requests[n]) = 2 /\ requests[n][1] < requests[n][2]
        /\ Len(sockets[n]) = options.maxSockets
        /\ _totalSockets = 1 /\ freeSockets[n] = <<>>

\* C9: the limits hold in every state: no key has more sockets in use than
\* maxSockets, and the counter never exceeds maxTotalSockets.
C9_LimitsHold ==
    /\ \A n \in Names : Len(sockets[n]) <= options.maxSockets
    /\ _totalSockets <= options.maxTotalSockets
\* maxSockets = 1 and two requests for one key: one was granted a connection, the
\* other one is queued
C9_Witness ==
    \E n \in Names, r, q \in Requests :
        /\ options.maxSockets = 1 /\ options.maxTotalSockets > 1
        /\ req[r].name = n /\ req[r].state \in {"connecting", "sent"}
        /\ req[q].name = n /\ req[q].state = "queued" /\ requests[n] = <<q>>
        /\ sockets[n] = <<req[r].socket>>
        /\ \A k \in Requests \ {r, q} : req[k].state = "unborn"

\* C10: releaseSocket with a request waiting under the key hands that very
\* socket, at once, to the request at the head of the queue, keeps the socket in
\* use, and leaves the free list and the counter as they are, whatever keepAlive.
C10_ReleaseHandsSocketToHeadWaiter ==
    [][\A s \in Sockets :
          LET r == sock[s].req IN
          (r # NoRequest /\ req[r].state = "sent" /\ req'[r].state = "done"
             /\ requests[req[r].name] # <<>>)
              => LET n == req[r].name
                     h == Head(requests[n])
                 IN  /\ requests'[n] = Tail(requests[n])
                     /\ req'[h].socket = s /\ req'[h].state = "sent"
                     /\ sock'[s].req = h
                     /\ Has(sockets'[n], s) /\ Len(sockets'[n]) = Len(sockets[n])
                     /\ freeSockets' = freeSockets
                     /\ _totalSockets' = _totalSockets]_vars
\* with keepAlive and maxSockets = 1 the first request's socket went to the
\* request that waited at the head, and it is in use, not free, while the
\* next request waits on
C10_Witness ==
    \E n \in Names, h \in Requests :
        /\ options.keepAlive /\ options.maxSockets = 1
        /\ req[h].state = "sent" /\ req[h].name = n /\ h > 1
        /\ req[1].state = "done" /\ req[1].name = n
        /\ sockets[n] = <<req[h].socket>> /\ sock[req[h].socket].called
        /\ freeSockets[n] = <<>> /\ requests[n] # <<>>
        /\ \A x \in Sockets \ {req[h].socket} : sock[x].state = "unborn"

\* a request's response is complete in this step and its socket s is given back
Releases(s) ==
    /\ sock[s].req # NoRequest
    /\ req[sock[s].req].state = "sent" /\ req'[sock[s].req].state = "done"

\* C11: releaseSocket with no request waiting under the key: with keepAlive and
\* fewer than maxFreeSockets free sockets under the key the socket moves from the
\* sockets in use to the tail of the free list and the counter stays; otherwise
\* the socket leaves the sockets in use, the counter goes down by exactly one
\* and the socket is ended.
C11_ReleaseFreesOrCloses ==
    [][\A s \in Sockets :
          (Releases(s) /\ requests[req[sock[s].req].name] = <<>>)
              => LET n == req[sock[s].req].name IN
                 /\ Has(sockets[n], s) /\ sockets'[n] = Without(sockets[n], s)
                 /\ ~Has(sockets'[n], s)
                 /\ requests' = requests
                 /\ IF options.keepAlive /\ Len(freeSockets[n]) < options.maxFreeSockets
                    THEN /\ freeSockets'[n] = Append(freeSockets[n], s)
                         /\ _totalSockets' = _totalSockets
                         /\ ~sock'[s].ended
                    ELSE /\ freeSockets' = freeSockets
                         /\ _totalSockets' = _totalSockets - 1
                         /\ sock'[s].ended]_vars
\* with keepAlive the free list of a key is full, and the socket given back
\* after that was ended and is counted no more
C11_Witness ==
    \E n \in Names, s \in Sockets :
        /\ options.keepAlive /\ Len(freeSockets[n]) = options.maxFreeSockets
        /\ sock[s].ended /\ sock[s].name = n /\ ~Has(freeSockets[n], s)
        /\ sockets[n] = <<>> /\ _totalSockets = Len(freeSockets[n])

\* the sum of the lengths of the lists kept under the keys `names`
RECURSIVE Total(_, _)
Total(lists, names) ==
    IF names = {} THEN 0
    ELSE LET n == CHOOSE x \in names : TRUE
         IN  Len(lists[n]) + Total(lists, names \ {n})

Pooled(s) == \E n \in Names : Has(sockets[n], s) \/ Has(freeSockets[n], s)
\* socket s emits 'close' or 'error' in this step
Signals(s) == SocketClose(s) \/ SocketError(s) \/ EmitClose(s)

\* C13: a connected socket that emits 'close' or 'error' while it is in a list of
\* the Agent - in use or free - is in no list afterwards and the counter has gone
\* down by exactly one; a signal of a socket in no list (given back and ended
\* before, or removed by an earlier signal) changes neither lists nor counter.
C13_SignalRemovesPooledSocketOnce ==
    [][\A s \in Sockets :
          (Signals(s) /\ sock[s].called)
              => /\ \A n \in Names : ~Has(sockets'[n], s) /\ ~Has(freeSockets'[n], s)
                 /\ _totalSockets' = IF Pooled(s) THEN _totalSockets - 1
                                     ELSE _totalSockets]_vars

\* C14: releaseSocket for a socket that the Agent does not hold as in use under
\* the key is a no-op: the sockets in use, the free lists, the queues and the
\* counter stay as they are, and the socket goes to no request and to no free
\* list.
C14_ReleaseOfUnleasedSocketIsNoOp ==
    [][\A s \in Sockets :
          CallReleaseSocket(s)
              => /\ UNCHANGED <<requests, sockets, freeSockets, _totalSockets>>
                 /\ req' = req]_vars

\* how often socket s stands in the lists kept under the keys `names`
RECURSIVE Places(_, _, _)
Places(lists, names, s) ==
    IF names = {} THEN 0
    ELSE LET n == CHOOSE x \in names : TRUE
         IN  Cardinality({i \in DOMAIN lists[n] : lists[n][i] = s})
             + Places(lists, names \ {n}, s)

\* C15: every socket stands at most once in all lists of sockets in use and free
\* sockets together, so no socket is free and in use at once, and no two
\* requests hold the same socket at the same time.
C15_SocketInAtMostOneList ==
    /\ \A s \in Sockets : Places(sockets, Names, s) + Places(freeSockets, Names, s) <= 1
    /\ \A r, q \in Requests :
          (r # q /\ req[r].state = "sent" /\ req[q].state \in {"sent", "connecting"})
              => req[r].socket # req[q].socket
\* a socket that was free and taken into use again is free once more, while
\* another socket of the same key is in use
C15_Witness ==
    \E n \in Names, s, u \in Sockets :
        /\ s # u /\ sock[s].closeL = 2 /\ freeSockets[n] = <<s>>
        /\ sockets[n] = <<u>> /\ sock[u].req # NoRequest

\* C16: waiters are served before the free list: under no key is a request
\* queued while a free socket is kept.
C16_NoWaiterWhileSocketFree ==
    \A n \in Names : freeSockets[n] # <<>> => requests[n] = <<>>
\* keepAlive: a request waited under a key, the socket given back went to it and
\* not to the free list, and after its response the socket is free with nobody
\* waiting
C16_Witness ==
    \E n \in Names, r, q \in Requests, s \in Sockets :
        /\ options.keepAlive /\ options.maxSockets = 1
        /\ r < q /\ req[r].name = n /\ req[q].name = n
        /\ req[r].state = "done" /\ req[q].state = "done"
        /\ freeSockets[n] = <<s>> /\ requests[n] = <<>> /\ sockets[n] = <<>>
        /\ sock[s].closeL = 1
        /\ \A x \in Sockets \ {s} : sock[x].state = "unborn"

\* request r waits in the queue of its key
Queued(r) == req[r].state = "queued"
\* a request for key n would be let through both limits
HasCapacity(n) ==
    Len(sockets[n]) < options.maxSockets /\ _totalSockets < options.maxTotalSockets

\* C17: no request stays queued for ever while its key and the Agent have
\* room for it: however the room came about - a release, a close, an error, a
\* failed connection, a release under another key - the request is granted a
\* socket in the end.
C17_QueuedRequestIsGranted ==
    \A r \in Requests : []<>~(Queued(r) /\ HasCapacity(req[r].name))

\* C18: a request aborted while it waits in the queue of its key is taken out
\* of the queue, the other waiters keep their order, and it is never handed a
\* socket afterwards.
C18_AbortedWaiterLeavesQueue ==
    [][\A r \in Requests :
          /\ (Abort(r) /\ Queued(r))
                => requests' = [requests EXCEPT ![req[r].name] = Without(@, r)]
          /\ (req[r].aborted /\ req[r].socket = NoSocket)
                => req'[r].socket = NoSocket]_vars

\* the events that hand the connection over as a tunnel
TunnelEvents == {"connect", "upgrade"}

C20_ParseErrorReportedOnceAndDestroys ==
    [][parser'.phase = "failed"
          => /\ conn'.errors = 1 /\ conn'.destroyed
             /\ parser.phase = "failed" => conn'.events = conn.events]_vars

\* C21: the feed loop re-feeds empty input at most 100 times per data event, and
\* a loop that reaches the cap while the parser still holds framed messages
\* reports a parse error and destroys the connection: it never stops silently
\* with parsed but undelivered messages left in the parser.
C21_CapReachedIsParseError ==
    (conn.listening /\ parser.phase = "parsing" /\ parser.buffer # <<>>)
        => conn.errors = 1 /\ conn.destroyed

\* C22: pipelining. When one data event carries n >= 2 complete requests, the
\* Server's feed loop emits from that one event n 'request' events and n
\* completions, in the order of the wire, and each completion (push(null)) goes
\* to the IncomingMessage of its own message.
C22_PipelinedRequestsAllDelivered ==
    (conn.role = "server" /\ fed >= 2)
        => /\ Len(conn.events) = 2 * fed
           /\ \A i \in 1..fed :
                 conn.events[2 * i - 1] = "request" /\ conn.events[2 * i] = "end"
           /\ conn.ended = [i \in 1..fed |-> i]

\* the chunks in one piece
RECURSIVE Concat(_)
Concat(chunks) == IF chunks = <<>> THEN <<>> ELSE Head(chunks) \o Concat(Tail(chunks))

\* C23: chunked round trip. The bytes a chunked message put on its socket for k
\* write() calls and end(), fed to the framer, give one message-complete event
\* whose body is the written chunks in order and whose trailers are the map
\* given to addTrailers (empty when there was none).
C23_ChunkedRoundTrip ==
    (outgoing.role = "message" /\ outgoing.finished)
        => LET framed == Frame(BodyChunked, outgoing.wire) IN
           /\ framed.phase = "Done"
           /\ framed.body = Concat(outgoing.chunks)
           /\ framed.trailers = outgoing._trailers

\* a response head with a status 1xx other than 101
Interim(m) == m \in {"100", "103"}
\* the events the interim responses of a segment are reported with
InformationalEvents(chunk) ==
    [i \in DOMAIN chunk |-> IF chunk[i] = "100" THEN "continue" ELSE "information"]
\* interim responses, with or without the final response after them
InterimThenFinal(chunk) ==
    /\ \A i \in 1..(Len(chunk) - 1) : Interim(chunk[i])
    /\ Interim(chunk[Len(chunk)]) \/ chunk[Len(chunk)] = "200"

\* C24: on a ClientRequest still waiting for its response, every interim
\* response (1xx other than 101) the parser frames is reported as 'continue' (100) or
\* 'information' (any other), makes no response object and emits no
\* 'response'; the final response head after them emits 'response' once.
C24_InterimIsNeverTheResponse ==
    [][\A chunk \in Chunks(ResponseMode) :
          (ClientData(chunk) /\ InterimThenFinal(chunk)
             /\ conn.method = "GET" /\ ~conn._res /\ parser.phase = "parsing")
              => LET last == chunk[Len(chunk)] IN
                 IF Interim(last)
                 THEN /\ conn'.events = conn.events \o InformationalEvents(chunk)
                      /\ ~conn'._res
                 ELSE /\ conn'.events =
                            conn.events
                               \o InformationalEvents(SubSeq(chunk, 1, Len(chunk) - 1))
                               \o <<"response", "end">>
                      /\ conn'._res]_vars
\* a request was told 'continue' and 'information' in one data event and got
\* its one response in a later one
C24_Witness ==
    /\ conn.role = "client" /\ conn.method = "GET" /\ conn._res
    /\ conn.events = <<"continue", "information", "response", "end">>
    /\ fed = 3

\* C39: on a server connection every request for which 'request' was emitted
\* is given the body pieces the parser frames for it, in order, and has its
\* body stream ended exactly once: when the parser completes the message, or
\* at the latest when the socket closes; also when a response on the
\* connection has finished before the body was complete.
C39_RequestBodyDeliveredAndEndedOnce ==
    conn.role = "server"
        => /\ conn.pushed = parser.bodies
           /\ \A k \in 1..conn.currentReq : Count(conn.ended, k) <= 1
           /\ \A i \in DOMAIN parser.completed : Has(conn.ended, parser.completed[i])
           /\ conn.closed => \A k \in 1..conn.currentReq : Has(conn.ended, k)

\* C25: a ClientRequest with Expect: 100-continue writes no byte of its body to
\* the socket before the 100 response has been received, and when the 100
\* arrives the writes held until then are written in order, once each.
C25_BodyHeldUntilContinue ==
    [][/\ (outgoing'.role = "request" /\ outgoing'._expectContinue
             /\ ~outgoing'._continueReceived)
            => outgoing'.wire \in {<<>>, <<"HEAD">>}
       /\ (Receive100 /\ outgoing._expectContinue)
            => /\ outgoing'.sent = outgoing.sent \o outgoing._pendingWrites
               /\ outgoing'._pendingWrites = <<>>]_vars

RECURSIVE Encoded(_, _)
Encoded(o, writes) ==
    IF writes = <<>> THEN <<>>
    ELSE (IF o.chunkedEncoding
          THEN toString16(Len(Head(writes))) \o <<"CR", "LF">> \o Head(writes) \o <<"CR", "LF">>
          ELSE Head(writes))
         \o Encoded(o, Tail(writes))

\* C36: on the socket the bytes of each chunk of a chunked message are
\* contiguous (size line, data, CRLF) and come before every byte of a later
\* chunk and of the terminating chunk, also for writes flushed together from a
\* request's queue: once every callback has run, the socket has received the
\* header block, the chunks one after the other and, if the message finished,
\* the terminating chunk.
C36_ChunksAreContiguous ==
    (outgoing.role = "request" /\ ~outgoing._expectContinue /\ outgoing.ticks = <<>>)
        => outgoing.wire =
              (IF outgoing.headersSent THEN <<"HEAD">> ELSE <<>>)
              \o Encoded(outgoing, outgoing.sent)
              \o (IF outgoing.finished /\ outgoing.chunkedEncoding
                  THEN <<"0", "CR", "LF", "CR", "LF">> ELSE <<>>)

\* the header blocks and the body bytes among what the socket received
Heads(o) == {i \in DOMAIN o.wire : o.wire[i] = "HEAD"}
\* the two headers that say how the body is framed
Framing == {"content-length", "transfer-encoding"}

\* C35: a ServerResponse writes its header block once and before any body
\* byte, and the library does not make a response carry both Content-Length
\* and Transfer-Encoding: chunked: end() as the first output sets
\* Content-Length and sends the body as it is, a write() before end() selects
\* the chunked coding (unless a Content-Length was given); setHeader and
\* writeHead after the headers were sent raise an error and change nothing.
C35_HeadersOnceAndOneFraming ==
    [][outgoing'.role = "response"
          => /\ Len(outgoing'.heads) <= 1
             /\ outgoing'.wire # <<>> => Heads(outgoing') = {1} /\ Len(outgoing'.heads) = 1
             /\ \A i \in DOMAIN outgoing'.heads :
                   Framing \subseteq outgoing'.heads[i] => Framing \subseteq outgoing'.given
             /\ \A chunk \in Chunk :
                   (ResEnd(chunk) /\ ~outgoing.headersSent)
                       => /\ "content-length" \in outgoing'.heads[1]
                          /\ ~outgoing'.chunkedEncoding
                          /\ outgoing'.wire = <<"HEAD">> \o chunk
             /\ \A chunk \in Chunk :
                   (ResWrite(chunk) /\ ~outgoing.headersSent
                      /\ "content-length" \notin outgoing.given)
                       => /\ outgoing'.chunkedEncoding
                          /\ "transfer-encoding" \in outgoing'.heads[1]
             /\ ((\E name \in HeaderNames : ResSetHeader(name)) \/
                 (\E names \in SUBSET HeaderNames : ResWriteHead(names)))
                  /\ outgoing.headersSent
                       => outgoing' = [outgoing EXCEPT !.errors = @ + 1]]_vars

\* ======================================================================
\* Properties of net.Socket as a stream (specification SpecStream)
\* ======================================================================

\* the places of the events ev among what the consumer has seen
Seen(st, ev) == {i \in DOMAIN st.seen : st.seen[i].ev = ev}
\* the payloads the consumer was given, in the order it got them
RECURSIVE Payloads(_)
Payloads(events) ==
    IF events = <<>> THEN <<>>
    ELSE IF Head(events).ev = "data" THEN <<Head(events).n>> \o Payloads(Tail(events))
    ELSE Payloads(Tail(events))

\* C26: a transport ERROR is one terminal signal. The consumer sees one 'error';
\* the Socket is destroyed with it: the driver's handler is unregistered and the
\* engine's connection destroyed; connect is not issued again; and no DATA
\* reaches the consumer after the error.
C26_ErrorIsSingleAndTerminal ==
    [][stream'._hadError
          => /\ Cardinality(Seen(stream', "error")) = 1
             /\ stream'.destroyed /\ ~stream'._driver
             /\ TheSocket \notin DOMAIN _handlers'
             /\ cmds'[TheSocket] = <<"unregister", "engine_destroy">>
             /\ stream'.connects = 1
             /\ stream._hadError
                  => /\ stream'.received = stream.received
                     /\ Payloads(stream'.seen) = Payloads(stream.seen)]_vars
\* the error came on a connection that had delivered data and could deliver
\* more, and the stream has emitted its 'close' since
C26_Witness ==
    /\ stream.role = "socket" /\ stream._hadError
    /\ stream.received > 0 /\ stream.received < MaxData
    /\ ~stream.closePending

\* C40: a net.Socket emits 'close' at most once over its lifetime, whatever the
\* order of the transport's CLOSE and ERROR events and the destroy() calls, so
\* a 'close' listener of the socket runs at most once.
C40_CloseEmittedAtMostOnce ==
    stream.role = "socket" => Cardinality(Seen(stream, "close")) <= 1

C28_SaturationPausesUntilConsumerAsks ==
    [][/\ (StreamData /\ Len(stream'.buffer) >= HighWaterMark) => stream'.paused
       /\ (stream.role = "socket" /\ Len(stream.buffer) >= HighWaterMark
             /\ stream.paused /\ ~stream'.paused)
            => StreamRead \/ StreamResume
       /\ stream'.role = "socket"
            => Payloads(stream'.seen) \o stream'.buffer
                  = [i \in 1..stream'.received |-> i]]_vars
\* the Readable is full and the transport paused, and a payload that was under
\* way has been buffered on top
C28_Witness ==
    /\ stream.role = "socket" /\ stream.paused /\ ~stream.flowing
    /\ Len(stream.buffer) > HighWaterMark

\* ======================================================================
\* Properties of net.Server (specification SpecServer)
\* ======================================================================

\* C29: Server.close() destroys all active connections at once: when it
\* returns, destroy() has been called on every socket the server tracked, the
\* tracked set is empty and the listener's close command has been issued.
C29_CloseDestroysAllConnections ==
    [][ServerClose
          => /\ \A c \in server._sockets :
                   /\ server'.client[c].destroyed
                   /\ server'.client[c].destroyCalls = server.client[c].destroyCalls + 1
             /\ server'._sockets = {}
             /\ server'.closeIssued]_vars
\* close() found two connections, one of them destroyed by the application
\* just before, and has destroyed both
C29_Witness ==
    /\ server.role = "server" /\ server.closeIssued
    /\ \E c, d \in Clients :
          /\ server.client[c].closePending /\ server.client[c].destroyCalls = 1
          /\ server.client[d].closePending /\ server.client[d].destroyCalls = 2

\* the accepted connections that are open and not destroyed, and the ones that
\* have not emitted 'close'
Open(sv) == {c \in Clients : sv.client[c].state = "open" /\ ~sv.client[c].destroyed}
NotYetClosed(sv) ==
    {c \in Clients : sv.client[c].state \in {"open", "closed"} /\ sv.client[c].closes = 0}

\* C30: getConnections reports the number of active connections: whatever was
\* accepted, closed by the peer or destroyed, and whether close() was called,
\* the count is the number of accepted connections that have not closed (a
\* destroyed socket counts until it has emitted 'close' at the latest) and is
\* never negative.
C30_CountIsActiveConnections ==
    server.role = "server"
        => /\ server._connections >= Cardinality(Open(server))
           /\ server._connections <= Cardinality(NotYetClosed(server))
           /\ server._connections >= 0

\* C31: with maxConnections = N > 0, a CONNECTION event that arrives while N
\* connections are tracked is rejected: 'drop' is emitted, the new socket is
\* destroyed, no 'connection' is emitted and the count and the tracked set stay
\* as they were; so the tracked set never holds more than N sockets.
C31_ConnectionAtLimitIsDropped ==
    [][\A c \in Clients :
          (ServerAccept(c) /\ server._maxConnections > 0)
              => /\ Cardinality(server._sockets) = server._maxConnections
                    => /\ server'.drops = server.drops + 1
                       /\ server'.client[c].destroyed
                       /\ server'.connections = server.connections
                       /\ server'._connections = server._connections
                       /\ server'._sockets = server._sockets
                 /\ Cardinality(server'._sockets) <= server._maxConnections]_vars

\* C38: for a tls.Server as for a net.Server an accepted connection is
\* un-tracked when it closes: once the CLOSE event of a tracked connection has
\* been delivered, the count is one less and the socket is out of the tracked
\* set.
C38_ClosedConnectionIsUntracked ==
    [][\A c \in Clients :
          (ServerSocketClose(c) /\ c \in server._sockets)
              => /\ server'._connections = server._connections - 1
                 /\ c \notin server'._sockets]_vars

\* ======================================================================
\* Properties of the module's initialization (specification SpecModule)
\* ======================================================================

\* C32: when initWithConfig({workerThreads: n}) with n > 0 is the first
\* operation on the module, the transport runtime is initialized with that
\* setting: the engine receives net_init_with_config with n worker threads.
C32_FirstConfigIsApplied ==
    [][\A config \in Configs :
          (CallInitWithConfig(config) /\ runtime.calls = <<>> /\ config.workerThreads > 0)
              => runtime'.engine = <<[fn |-> "net_init_with_config", n |-> config.workerThreads]>>]_vars

\* the module's state but for the record of what was asked of it
ModuleState(rt) == [rt EXCEPT !.calls = <<>>]

\* C33: the transport runtime is initialized at most once: after any
\* operations the engine has received exactly one init call, and a
\* configuration supplied once the runtime is initialized changes no state.
C33_LaterConfigChangesNothing ==
    [][/\ runtime'.calls # <<>> => Len(runtime'.engine) = 1
       /\ \A config \in Configs :
             (CallInitWithConfig(config) /\ runtime._initialized)
                 => ModuleState(runtime') = ModuleState(runtime)]_vars

\* ======================================================================
\* Further properties of the Agent (specification SpecAgent)
\* ======================================================================

\* C37: in every state of an Agent, for every key, the sockets in use and the
\* idle sockets together are at most maxSockets: a connection is opened only
\* when the key has no idle socket.
C37_LeasedPlusIdleWithinMaxSockets ==
    [][/\ \A n \in Names :
             Len(sockets'[n]) + Len(freeSockets'[n]) <= options'.maxSockets
       /\ \A r \in Requests :
             (Adds(r) /\ ~NoNewConnection) => freeSockets[req'[r].name] = <<>>]_vars
\* maxSockets = 2 and a key with one socket in use and one idle: a request was
\* served and released its socket while another one is still under way
C37_Witness ==
    \E n \in Names :
        /\ options.maxSockets = 2
        /\ Len(sockets[n]) = 1 /\ Len(freeSockets[n]) = 1
        /\ requests[n] = <<>>

====
